---- MODULE Spec2Model ----
(***************************************************************************)
(* A model of src/lib/json-utils.ts: the format-conversion and repair      *)
(* engine of the JSON workbench.  Texts are strings of characters; every   *)
(* operation of the library is an operator from text to its return         *)
(* record, computed step by step as the code computes it, and one action   *)
(* of the state machine: a caller holds a text, calls an operation on it,  *)
(* and may put the returned result back as the text of the next call.      *)
(***************************************************************************)
EXTENDS Integers, Sequences, FiniteSets, TLC

VARIABLES
    orig,   \* the text the caller started from
    text,   \* the text the next call is made on
    via,    \* the operations whose results led from orig to text, in order
    op,     \* the operation called last ("none" before any call)
    args,   \* the arguments of that call after the text
    ret,    \* what that call returned
    calls   \* the earlier call the caller remembers, with what it returned

vars == <<orig, text, via, op, args, ret, calls>>

(***************************************************************************)
(* Characters and strings                                                  *)
(***************************************************************************)
SP == " "
NL == "\n"
TAB == "\t"
CR == "\r"
FF == "\f"
DQ == "\""
SQ == "'"
BS == "\\"

\* s[i], or "" past either end of s
At(s, i) == IF i >= 1 /\ i <= Len(s) THEN SubSeq(s, i, i) ELSE ""

\* s.slice(i - 1): the text from position i (1-based) to the end
From(s, i) == IF i > Len(s) THEN "" ELSE SubSeq(s, i, Len(s))

\* s.slice(0, i - 1): the text before position i
Before(s, i) == IF i <= 1 THEN "" ELSE SubSeq(s, 1, i - 1)

\* s.startsWith(p, i - 1)
StartsWithAt(s, i, p) ==
    /\ i + Len(p) - 1 <= Len(s)
    /\ SubSeq(s, i, i + Len(p) - 1) = p

\* s.includes(p)
Includes(s, p) == \E i \in 1..(Len(s) + 1) : StartsWithAt(s, i, p)

\* s.indexOf(p) as a 1-based position, 0 when p does not occur
IndexOf(s, p) ==
    IF Includes(s, p)
    THEN CHOOSE i \in 1..(Len(s) + 1) :
            /\ StartsWithAt(s, i, p)
            /\ \A j \in 1..(i - 1) : ~StartsWithAt(s, j, p)
    ELSE 0

RECURSIVE Repeat(_, _)
\* c.repeat(n)
Repeat(c, n) == IF n <= 0 THEN "" ELSE c \o Repeat(c, n - 1)

\* the number of positions of s that hold character c: (s.match(/c/g) || []).length
CountChar(s, c) == Cardinality({i \in 1..Len(s) : At(s, i) = c})

Digits == {"0", "1", "2", "3", "4", "5", "6", "7", "8", "9"}

LowerLetters ==
    {"a", "b", "c", "d", "e", "f", "g", "h", "i", "j", "k", "l", "m",
     "n", "o", "p", "q", "r", "s", "t", "u", "v", "w", "x", "y", "z"}

UpperLetters ==
    {"A", "B", "C", "D", "E", "F", "G", "H", "I", "J", "K", "L", "M",
     "N", "O", "P", "Q", "R", "S", "T", "U", "V", "W", "X", "Y", "Z"}

\* the white space of the JSON grammar
JsonWs == {SP, NL, TAB, CR}

\* the white space of String.prototype.trim and of \s (within the modelled characters)
JsWs == {SP, NL, TAB, CR, FF}

\* the line terminators "." does not match and "$" (with the m flag) stops at
LineTerminators == {NL, CR}

\* the first position >= i of s that holds no character of ws (Len(s) + 1 if none)
SkipSet(s, i, ws) ==
    CHOOSE j \in i..(Len(s) + 1) :
        /\ (j = Len(s) + 1 \/ At(s, j) \notin ws)
        /\ \A k \in i..(j - 1) : At(s, k) \in ws

\* s.trim()
Trim(s) ==
    LET a == SkipSet(s, 1, JsWs)
    IN  IF a > Len(s) THEN ""
        ELSE LET b == CHOOSE j \in a..Len(s) :
                        /\ At(s, j) \notin JsWs
                        /\ \A k \in (j + 1)..Len(s) : At(s, k) \in JsWs
             IN  SubSeq(s, a, b)

DigitVal(c) ==
    CASE c = "0" -> 0 [] c = "1" -> 1 [] c = "2" -> 2 [] c = "3" -> 3
      [] c = "4" -> 4 [] c = "5" -> 5 [] c = "6" -> 6 [] c = "7" -> 7
      [] c = "8" -> 8 [] c = "9" -> 9

DigitChar(d) ==
    CASE d = 0 -> "0" [] d = 1 -> "1" [] d = 2 -> "2" [] d = 3 -> "3"
      [] d = 4 -> "4" [] d = 5 -> "5" [] d = 6 -> "6" [] d = 7 -> "7"
      [] d = 8 -> "8" [] d = 9 -> "9"

RECURSIVE NatOfDigits(_, _)
\* the number a run of decimal digits denotes, acc being the digits read so far
NatOfDigits(s, acc) ==
    IF s = "" THEN acc
    ELSE NatOfDigits(From(s, 2), 10 * acc + DigitVal(At(s, 1)))

RECURSIVE DigitsOfNat(_)
DigitsOfNat(n) ==
    IF n < 10 THEN DigitChar(n)
    ELSE DigitsOfNat(n \div 10) \o DigitChar(n % 10)

\* String(n) of an integer
NumToString(n) == IF n < 0 THEN "-" \o DigitsOfNat(0 - n) ELSE DigitsOfNat(n)

(***************************************************************************)
(* Values: what JSON.parse returns and JSON.stringify prints               *)
(***************************************************************************)
Undefined == [t |-> "undefined"]
Null == [t |-> "null"]
Bool(b) == [t |-> "bool", b |-> b]
Num(n) == [t |-> "num", n |-> n]
\* the numbers Infinity and -Infinity
Infinite(negative) == [t |-> "inf", negative |-> negative]
Str(s) == [t |-> "str", s |-> s]
Arr(items) == [t |-> "arr", a |-> items]
Obj(members) == [t |-> "obj", m |-> members]

IsScalar(x) == x.t \in {"null", "bool", "num", "str"}

\* Object.keys(x) of an object value
Keys(x) == [i \in 1..Len(x.m) |-> x.m[i].k]

HasKey(members, k) == \E i \in 1..Len(members) : members[i].k = k

\* x[k] of an object value that has the key
Get(x, k) == x.m[CHOOSE i \in 1..Len(x.m) : x.m[i].k = k].v

\* a canonical array index: "0", or digits without a leading zero
IsIndexKey(k) ==
    /\ k # ""
    /\ \A i \in 1..Len(k) : At(k, i) \in Digits
    /\ (At(k, 1) = "0" => Len(k) = 1)

\* the members before which member m is enumerated: JavaScript lists an
\* object's integer keys first, in ascending order, then the other keys in
\* the order of their creation
RankBefore(members, m) ==
    Cardinality({i \in 1..Len(members) :
        LET a == members[i].k
            b == members[m].k
        IN  IF IsIndexKey(a) /\ IsIndexKey(b)
            THEN NatOfDigits(a, 0) < NatOfDigits(b, 0)
            ELSE IF IsIndexKey(a) # IsIndexKey(b) THEN IsIndexKey(a)
            ELSE i < m})

\* obj[k] = v, keeping the members in JavaScript's enumeration order
ObjSet(members, k, v) ==
    IF HasKey(members, k)
    THEN [i \in 1..Len(members) |->
            IF members[i].k = k THEN [k |-> k, v |-> v] ELSE members[i]]
    ELSE LET all == Append(members, [k |-> k, v |-> v])
         IN  [p \in 1..Len(all) |->
                all[CHOOSE m \in 1..Len(all) : RankBefore(all, m) = p - 1]]

(***************************************************************************)
(* JSON.parse: the strict JSON grammar.  A parse step returns whether it   *)
(* succeeded, the value read and the position after it.  The modelled      *)
(* numerals are integers, and the escapes \b and \uXXXX denote characters  *)
(* outside the modelled character set: no text of the model holds them.    *)
(***************************************************************************)
ParseFail == [ok |-> FALSE, v |-> Undefined, i |-> 0]
ParseOk(v, i) == [ok |-> TRUE, v |-> v, i |-> i]

\* the character an escape letter of a JSON string denotes ("" if none is modelled)
Unescaped(e) ==
    CASE e = DQ -> DQ [] e = BS -> BS [] e = "/" -> "/"
      [] e = "n" -> NL [] e = "t" -> TAB [] e = "r" -> CR [] e = "f" -> FF
      [] OTHER -> ""

\* the characters of s other than those of the set
CharsBut(s, set) == {At(s, k) : k \in 1..Len(s)} \ set

RECURSIVE ParseStringBody(_, _, _)

\* the string literal read up to position k, which holds c: its closing
\* quote, an escape, a control character, or nothing
StringBodyAt(s, j, acc, k, c) ==
    CASE c = "" -> ParseFail
      [] c = DQ -> ParseOk(Str(acc \o SubSeq(s, j, k - 1)), k + 1)
      [] c = BS ->
            IF Unescaped(At(s, k + 1)) = "" THEN ParseFail
            ELSE ParseStringBody(s, k + 2,
                    acc \o SubSeq(s, j, k - 1) \o Unescaped(At(s, k + 1)))
      [] c \in {NL, TAB, CR, FF} -> ParseFail

StringBodyTo(s, j, acc, k) == StringBodyAt(s, j, acc, k, At(s, k))

\* the characters of a string literal from position j, after its opening
\* quote: the characters up to position k stand for themselves
ParseStringBody(s, j, acc) ==
    StringBodyTo(s, j, acc, SkipSet(s, j, CharsBut(s, {DQ, BS, NL, TAB, CR, FF})))

\* the numeral whose digits are at a..(b - 1)
NumberOf(s, neg, a, b) ==
    IF At(s, a) \notin Digits THEN ParseFail
    ELSE IF neg THEN ParseOk(Num(0 - NatOfDigits(SubSeq(s, a, b - 1), 0)), b)
    ELSE ParseOk(Num(NatOfDigits(SubSeq(s, a, b - 1), 0)), b)

NumberFrom(s, neg, a) ==
    NumberOf(s, neg, a, IF At(s, a) = "0" THEN a + 1 ELSE SkipSet(s, a, Digits))

\* -?(0|[1-9][0-9]*) at position i; after a leading 0 the numeral has ended
ParseNumber(s, i) ==
    IF At(s, i) = "-" THEN NumberFrom(s, TRUE, i + 1) ELSE NumberFrom(s, FALSE, i)

RECURSIVE ParseValue(_, _)
RECURSIVE ParseElements(_, _, _)
RECURSIVE ParseMembers(_, _, _)

\* after "{" and blanks, at position j
ParseObjectAt(s, j) ==
    IF At(s, j) = "}" THEN ParseOk(Obj(<<>>), j + 1)
    ELSE ParseMembers(s, j, <<>>)

\* after "[" and blanks, at position j
ParseArrayAt(s, j) ==
    IF At(s, j) = "]" THEN ParseOk(Arr(<<>>), j + 1)
    ELSE ParseElements(s, j, <<>>)

\* the value that starts at the non-blank position i, which holds c
ParseValueAt(s, i, c) ==
    CASE c = "{" -> ParseObjectAt(s, SkipSet(s, i + 1, JsonWs))
      [] c = "[" -> ParseArrayAt(s, SkipSet(s, i + 1, JsonWs))
      [] c = DQ -> ParseStringBody(s, i + 1, "")
      [] c \in Digits \cup {"-"} -> ParseNumber(s, i)
      [] StartsWithAt(s, i, "true") -> ParseOk(Bool(TRUE), i + 4)
      [] StartsWithAt(s, i, "false") -> ParseOk(Bool(FALSE), i + 5)
      [] StartsWithAt(s, i, "null") -> ParseOk(Null, i + 4)
      [] OTHER -> ParseFail

ParseValueFrom(s, i) == ParseValueAt(s, i, At(s, i))

\* the value that starts at the first non-blank position >= i0
ParseValue(s, i0) == ParseValueFrom(s, SkipSet(s, i0, JsonWs))

\* the element r has been read and position j, past the blanks after it,
\* holds c
ElementEnd(s, acc, r, j, c) ==
    CASE c = "," -> ParseElements(s, j + 1, Append(acc, r.v))
      [] c = "]" -> ParseOk(Arr(Append(acc, r.v)), j + 1)
      [] OTHER -> ParseFail

ElementRead(s, acc, r) ==
    IF ~r.ok THEN ParseFail
    ELSE ElementEnd(s, acc, r, SkipSet(s, r.i, JsonWs),
                    At(s, SkipSet(s, r.i, JsonWs)))

\* the elements of an array from position i, acc being those read so far
ParseElements(s, i, acc) == ElementRead(s, acc, ParseValue(s, i))

\* the member key: r has been read and position j, past the blanks after it,
\* holds c
MemberEnd(s, acc, key, r, j, c) ==
    CASE c = "," ->
            ParseMembers(s, SkipSet(s, j + 1, JsonWs), ObjSet(acc, key, r.v))
      [] c = "}" -> ParseOk(Obj(ObjSet(acc, key, r.v)), j + 1)
      [] OTHER -> ParseFail

MemberRead(s, acc, key, r) ==
    IF ~r.ok THEN ParseFail
    ELSE MemberEnd(s, acc, key, r, SkipSet(s, r.i, JsonWs),
                   At(s, SkipSet(s, r.i, JsonWs)))

\* the key has been read and position c is past the blanks after it
MemberColon(s, acc, key, c) ==
    IF At(s, c) # ":" THEN ParseFail
    ELSE MemberRead(s, acc, key, ParseValue(s, c + 1))

MemberKeyed(s, acc, key) ==
    IF ~key.ok THEN ParseFail
    ELSE MemberColon(s, acc, key.v.s, SkipSet(s, key.i, JsonWs))

\* the members of an object from the non-blank position i, acc being those read so far
ParseMembers(s, i, acc) ==
    IF At(s, i) # DQ THEN ParseFail
    ELSE MemberKeyed(s, acc, ParseStringBody(s, i + 1, ""))

\* the value read, if nothing but blanks follows it
ParsedWhole(s, r) ==
    IF r.ok /\ SkipSet(s, r.i, JsonWs) = Len(s) + 1
    THEN [ok |-> TRUE, v |-> r.v]
    ELSE [ok |-> FALSE, v |-> Undefined]

\* JSON.parse(s): ok is FALSE where JSON.parse throws a SyntaxError
JsonParse(s) == ParsedWhole(s, ParseValue(s, 1))

(***************************************************************************)
(* JSON.stringify(value, null, indent)                                     *)
(***************************************************************************)
\* what JSON.stringify writes for one character of a string
Escaped(c) ==
    CASE c = DQ -> BS \o DQ [] c = BS -> BS \o BS
      [] c = NL -> BS \o "n" [] c = TAB -> BS \o "t"
      [] c = CR -> BS \o "r" [] c = FF -> BS \o "f"
      [] OTHER -> c

RECURSIVE EscapeChars(_)
\* every character of s escaped: those of its first half, then the others
EscapeChars(s) ==
    IF Len(s) <= 1 THEN Escaped(s)
    ELSE EscapeChars(SubSeq(s, 1, Len(s) \div 2))
            \o EscapeChars(SubSeq(s, Len(s) \div 2 + 1, Len(s)))

\* JSON.stringify of a string: the quoted, escaped text
Quote(s) == DQ \o EscapeChars(s) \o DQ

RECURSIVE StringifyAt(_, _, _)
RECURSIVE StringifyItems(_, _, _, _)
RECURSIVE StringifyMembers(_, _, _, _)

\* the separator between the entries of a container printed at nesting level
\* depth: a line break and the indentation when indent > 0, nothing otherwise
Gap(indent, depth) == IF indent > 0 THEN NL \o Repeat(SP, indent * depth) ELSE ""

\* the text of value x printed at nesting level depth
StringifyAt(x, indent, depth) ==
    CASE x.t = "null" -> "null"
      [] x.t = "bool" -> IF x.b THEN "true" ELSE "false"
      [] x.t = "num" -> NumToString(x.n)
      [] x.t = "inf" -> "null"
      [] x.t = "str" -> Quote(x.s)
      [] x.t = "arr" ->
            IF x.a = <<>> THEN "[]"
            ELSE "[" \o StringifyItems(x.a, 1, indent, depth + 1)
                     \o Gap(indent, depth) \o "]"
      [] x.t = "obj" ->
            IF x.m = <<>> THEN "{}"
            ELSE "{" \o StringifyMembers(x.m, 1, indent, depth + 1)
                     \o Gap(indent, depth) \o "}"

StringifyItems(items, n, indent, depth) ==
    IF n > Len(items) THEN ""
    ELSE (IF n > 1 THEN "," ELSE "") \o Gap(indent, depth)
            \o StringifyAt(items[n], indent, depth)
            \o StringifyItems(items, n + 1, indent, depth)

StringifyMembers(members, n, indent, depth) ==
    IF n > Len(members) THEN ""
    ELSE (IF n > 1 THEN "," ELSE "") \o Gap(indent, depth)
            \o Quote(members[n].k) \o ":" \o (IF indent > 0 THEN SP ELSE "")
            \o StringifyAt(members[n].v, indent, depth)
            \o StringifyMembers(members, n + 1, indent, depth)

\* JSON.stringify(x, null, indent) of a value other than undefined
JsonStringify(x, indent) == StringifyAt(x, indent, 0)

(***************************************************************************)
(* Return records.  An optional field is the empty sequence when the       *)
(* JavaScript record has no such property (or holds undefined), and a      *)
(* one-element sequence when it holds a value.  A call that lets an        *)
(* exception escape returns Thrown.                                        *)
(***************************************************************************)
Success(r) == [success |-> TRUE, result |-> <<r>>, error |-> <<>>]
Failure(e) == [success |-> FALSE, result |-> <<>>, error |-> <<e>>]
Thrown(e) == [threw |-> TRUE, message |-> e]
IsThrown(r) == "threw" \in DOMAIN r

\* error.message of the SyntaxError JSON.parse throws
JsonErrorMessage == "Unexpected token in JSON"

(***************************************************************************)
(* tryFixJson, src/lib/json-utils.ts:11-75                                 *)
(***************************************************************************)
RECURSIVE SingleQuotedEnd(_, _)
\* [^'\\]*(?:\\.[^'\\]*)*' from position j: the position of the closing
\* quote, 0 if the pattern does not match from here
SingleQuotedEnd(s, j) ==
    LET k == SkipSet(s, j, CharsBut(s, {SQ, BS}))
        c == At(s, k)
    IN  CASE c = "" -> 0
          [] c = SQ -> k
          [] c = BS ->
                IF At(s, k + 1) = "" \/ At(s, k + 1) \in LineTerminators THEN 0
                ELSE SingleQuotedEnd(s, k + 2)

\* singleQuotePattern /(?<!\\)'([^'\\]*(?:\\.[^'\\]*)*)'/ matched at position
\* i: the position of the last character of the match, 0 if none
SingleQuoteMatch(s, i) ==
    IF At(s, i) = SQ /\ At(s, i - 1) # BS THEN SingleQuotedEnd(s, i + 1) ELSE 0

\* the least j in lo..hi with Matches(j), 0 if there is none
FirstWhere(lo, hi, Matches(_)) ==
    IF \E j \in lo..hi : Matches(j)
    THEN CHOOSE j \in lo..hi : Matches(j) /\ \A k \in lo..(j - 1) : ~Matches(k)
    ELSE 0

RECURSIVE ReplaceSingleQuotes(_, _)
\* fixed.replace(singleQuotePattern, '"$1"'), from position i on: j is
\* where the next match starts
ReplaceSingleQuotes(s, i) ==
    LET j == FirstWhere(i, Len(s), LAMBDA k : SingleQuoteMatch(s, k) > 0)
        e == SingleQuoteMatch(s, j)
    IN  IF j = 0 THEN From(s, i)
        ELSE SubSeq(s, i, j - 1) \o DQ \o SubSeq(s, j + 1, e - 1) \o DQ
                \o ReplaceSingleQuotes(s, e + 1)

\* trailingCommaPattern /,(\s*[}\]])/ matched at position i
TrailingCommaMatch(s, i) ==
    LET j == SkipSet(s, i + 1, JsWs)
    IN  IF At(s, i) = "," /\ At(s, j) \in {"}", "]"} THEN j ELSE 0

RECURSIVE RemoveTrailingCommas(_, _)
\* fixed.replace(trailingCommaPattern, '$1'), from position i on
RemoveTrailingCommas(s, i) ==
    LET j == FirstWhere(i, Len(s), LAMBDA k : TrailingCommaMatch(s, k) > 0)
        e == TrailingCommaMatch(s, j)
    IN  IF j = 0 THEN From(s, i)
        ELSE SubSeq(s, i, j - 1) \o SubSeq(s, j + 1, e)
                \o RemoveTrailingCommas(s, e + 1)

IdentStart == LowerLetters \cup UpperLetters \cup {"_"}
IdentChars == IdentStart \cup Digits

\* unquotedKeyPattern /([{,]\s*)([a-zA-Z_][a-zA-Z0-9_]*)(\s*:)/ matched at
\* position i: where the key starts (a), where it ends (b) and the position
\* of the colon (c); c = 0 if the pattern does not match
UnquotedKeyMatch(s, i) ==
    LET a == SkipSet(s, i + 1, JsWs)
        b == SkipSet(s, a, IdentChars)
        c == SkipSet(s, b, JsWs)
    IN  IF At(s, i) \in {"{", ","} /\ At(s, a) \in IdentStart /\ At(s, c) = ":"
        THEN [a |-> a, b |-> b, c |-> c]
        ELSE [a |-> 0, b |-> 0, c |-> 0]

RECURSIVE QuoteUnquotedKeys(_, _)
\* fixed.replace(unquotedKeyPattern, '$1"$2"$3'), from position i on
QuoteUnquotedKeys(s, i) ==
    LET j == FirstWhere(i, Len(s), LAMBDA k : UnquotedKeyMatch(s, k).c > 0)
        m == UnquotedKeyMatch(s, j)
    IN  IF j = 0 THEN From(s, i)
        ELSE SubSeq(s, i, m.a - 1) \o DQ \o SubSeq(s, m.a, m.b - 1) \o DQ
                \o SubSeq(s, m.b, m.c) \o QuoteUnquotedKeys(s, m.c + 1)

\* commentPattern /\/\/.*$|\/\*[\s\S]*?\*\//gm matched at position i: the
\* position of the last character of the match, 0 if none
CommentMatch(s, i) ==
    IF StartsWithAt(s, i, "//")
    THEN SkipSet(s, i + 2, {At(s, k) : k \in 1..Len(s)} \ LineTerminators) - 1
    ELSE IF StartsWithAt(s, i, "/*") /\ Includes(From(s, i + 2), "*/")
    THEN i + 1 + IndexOf(From(s, i + 2), "*/") + 1
    ELSE 0

RECURSIVE RemoveComments(_, _)
\* fixed.replace(commentPattern, ''), from position i on
RemoveComments(s, i) ==
    LET j == FirstWhere(i, Len(s), LAMBDA k : CommentMatch(s, k) > 0)
    IN  IF j = 0 THEN From(s, i)
        ELSE SubSeq(s, i, j - 1) \o RemoveComments(s, CommentMatch(s, j) + 1)

\* pattern.test(fixed) of a fresh regular expression: does it match anywhere
TestSingleQuote(s) == \E i \in 1..Len(s) : SingleQuoteMatch(s, i) > 0
TestTrailingComma(s) == \E i \in 1..Len(s) : TrailingCommaMatch(s, i) > 0
TestUnquotedKey(s) == \E i \in 1..Len(s) : UnquotedKeyMatch(s, i).c > 0
TestComment(s) == \E i \in 1..Len(s) : CommentMatch(s, i) > 0

FixSingleQuotes == "Replaced single quotes with double quotes"
FixTrailingCommas == "Removed trailing commas"
FixUnquotedKeys == "Added quotes to unquoted keys"
FixBraces(n) == "Added " \o NumToString(n) \o " missing closing brace(s)"
FixBrackets(n) == "Added " \o NumToString(n) \o " missing closing bracket(s)"
FixComments == "Removed comments"

\* a rewrite that pushes its description whether its trigger holds or not
Rewrite_AlwaysPushes(st, fires, rewritten, description) ==
    [fixed |-> IF fires THEN rewritten ELSE st.fixed,
     fixes |-> Append(st.fixes, description)]

\* one rewrite of tryFixJson: st is [fixed, fixes]; the rewrite is applied
\* and its description pushed if its trigger holds
Rewrite(st, fires, rewritten, description) ==
    IF fires THEN [fixed |-> rewritten, fixes |-> Append(st.fixes, description)]
    ELSE st

\* lines 15-21
FixStep1(st) ==
    Rewrite(st, TestSingleQuote(st.fixed),
            ReplaceSingleQuotes(st.fixed, 1), FixSingleQuotes)

\* a repair that never removes a trailing comma
FixStep2_KeepsCommas(st) == st

\* lines 23-28
FixStep2(st) ==
    Rewrite(st, TestTrailingComma(st.fixed),
            RemoveTrailingCommas(st.fixed, 1), FixTrailingCommas)

\* lines 30-36
FixStep3(st) ==
    Rewrite(st, TestUnquotedKey(st.fixed),
            QuoteUnquotedKeys(st.fixed, 1), FixUnquotedKeys)

\* lines 38-51: the counts are taken once, before either append
FixStep4(st) ==
    LET openBraces == CountChar(st.fixed, "{")
        closeBraces == CountChar(st.fixed, "}")
        openBrackets == CountChar(st.fixed, "[")
        closeBrackets == CountChar(st.fixed, "]")
        braced == Rewrite(st, openBraces > closeBraces,
                          st.fixed \o Repeat("}", openBraces - closeBraces),
                          FixBraces(openBraces - closeBraces))
    IN  Rewrite(braced, openBrackets > closeBrackets,
                braced.fixed \o Repeat("]", openBrackets - closeBrackets),
                FixBrackets(openBrackets - closeBrackets))

\* lines 53-58
FixStep5(st) ==
    Rewrite(st, TestComment(st.fixed), RemoveComments(st.fixed, 1), FixComments)

\* a repair whose list of fixes is one list kept from call to call
FixRewrites_KeepsFixes(jsonString) ==
    FixStep5(FixStep4(FixStep3(FixStep2(FixStep1(
        [fixed |-> jsonString,
         fixes |-> IF \E c \in calls : c.op = "tryFixJson"
                   THEN (CHOOSE c \in calls : c.op = "tryFixJson").ret.fixes
                   ELSE <<>>])))))

\* the rewritten text and the fixes pushed, before the final parse
FixRewrites(jsonString) ==
    FixStep5(FixStep4(FixStep3(FixStep2(FixStep1(
        [fixed |-> jsonString, fixes |-> <<>>])))))

\* lines 60-74: the rewritten text parsed, and the record returned
FixResult(st, parsed) ==
    IF parsed.ok
    THEN [success |-> TRUE, result |-> <<JsonStringify(parsed.v, 2)>>,
          error |-> <<>>, fixes |-> st.fixes]
    ELSE [success |-> FALSE, result |-> <<>>,
          error |-> <<JsonErrorMessage>>, fixes |-> st.fixes]

FixParsed(st) == FixResult(st, JsonParse(st.fixed))

tryFixJson(jsonString) == FixParsed(FixRewrites(jsonString))

(***************************************************************************)
(* formatJson and compressJson, src/lib/json-utils.ts:452-465, 572-588     *)
(***************************************************************************)
formatJson(jsonString) ==
    LET parsed == JsonParse(jsonString)
    IN  IF parsed.ok THEN Success(JsonStringify(parsed.v, 4))
        ELSE Failure(JsonErrorMessage)

\* new Blob([s]).size: one byte per modelled character
ByteSize(s) == Len(s)

compressJson(jsonString) ==
    LET parsed == JsonParse(jsonString)
        compressed == JsonStringify(parsed.v, 0)
    IN  IF parsed.ok
        THEN [success |-> TRUE, result |-> <<compressed>>, error |-> <<>>,
              originalSize |-> ByteSize(jsonString),
              compressedSize |-> ByteSize(compressed)]
        ELSE Failure(JsonErrorMessage)

(***************************************************************************)
(* The XML reader of xml-js (xml2js over a strict sax parser), called at   *)
(* src/lib/json-utils.ts:485 and 831.  The modelled texts hold no '!' or   *)
(* '?' after '<' (no comment, CDATA, doctype or processing instruction),   *)
(* no '#' in an entity, and no entity name outside SaxEntities that the    *)
(* parser's table knows.  The parser keeps reading after a failure of the  *)
(* strict grammar and the last failure is the one reported; its line and   *)
(* column suffix is left out of the message.                               *)
(***************************************************************************)
IsWhitespace(c) == c \in {SP, NL, CR, TAB}
NameStart(c) == c \in LowerLetters \cup UpperLetters \cup {":", "_"}
NameBody(c) == NameStart(c) \/ c \in Digits \cup {"-", "."}

\* the entities of the modelled texts that the parser's table resolves
SaxEntities ==
    [name \in {"amp", "lt", "gt", "quot", "apos"} |->
        CASE name = "amp" -> "&"
          [] name = "lt" -> "<"
          [] name = "gt" -> ">"
          [] name = "quot" -> DQ
          [] name = "apos" -> SQ]

\* new sax parser, strict
SaxParser ==
    [st |-> "BEGIN", textNode |-> "", tagName |-> "", attribName |-> "",
     attribValue |-> "", q |-> "", entity |-> "", attributes |-> <<>>,
     tags |-> <<>>, sawRoot |-> FALSE, closedRoot |-> FALSE,
     error |-> <<>>, events |-> <<>>]

\* closeText: the pending text becomes a text event
CloseText(p) ==
    IF p.textNode = "" THEN p
    ELSE [p EXCEPT !.events = Append(@, [e |-> "text", n |-> p.textNode, a |-> <<>>]),
                   !.textNode = ""]

\* strictFail in strict mode: error(parser, message)
StrictFail(p, message) == [CloseText(p) EXCEPT !.error = <<message>>]

\* newTag: the tag record is created, pending text is emitted first
NewTag(p) == [CloseText(p) EXCEPT !.attributes = <<>>]

\* attrib: a repeated attribute name is ignored
Attrib(p) ==
    IF \E i \in 1..Len(p.attributes) : p.attributes[i].k = p.attribName
    THEN [p EXCEPT !.attribName = "", !.attribValue = ""]
    ELSE [p EXCEPT !.attributes = Append(@, [k |-> p.attribName, v |-> Str(p.attribValue)]),
                   !.attribName = "", !.attribValue = ""]

RECURSIVE CloseEvents(_, _, _)
\* the close events of tags[from] down to tags[to]
CloseEvents(tags, from, to) ==
    IF from < to THEN <<>>
    ELSE <<[e |-> "close", n |-> tags[from], a |-> <<>>]>> \o CloseEvents(tags, from - 1, to)

\* closeTag
SaxCloseTag(p) ==
    IF p.tagName = ""
    THEN [StrictFail(p, "Weird empty close tag.") EXCEPT !.textNode = "</>", !.st = "TEXT"]
    ELSE LET matches == {i \in 1..Len(p.tags) : p.tags[i] = p.tagName}
             t == IF matches = {} THEN 0
                  ELSE CHOOSE i \in matches : \A j \in matches : j <= i
             p1 == IF t < Len(p.tags) THEN StrictFail(p, "Unexpected close tag") ELSE p
         IN  IF t = 0
             THEN [StrictFail(p1, "Unmatched closing tag: " \o p.tagName) EXCEPT
                      !.textNode = "</" \o p.tagName \o ">", !.st = "TEXT"]
             ELSE [CloseText(p1) EXCEPT
                      !.events = @ \o CloseEvents(p.tags, Len(p.tags), t),
                      !.tags = SubSeq(p.tags, 1, t - 1),
                      !.closedRoot = @ \/ t = 1,
                      !.tagName = "", !.attribName = "", !.attribValue = "",
                      !.attributes = <<>>, !.st = "TEXT"]

\* openTag
SaxOpenTag(p, selfClosing) ==
    LET opened == [CloseText(p) EXCEPT
                      !.events = @ \o <<[e |-> "open", n |-> p.tagName, a |-> p.attributes]>>,
                      !.sawRoot = TRUE,
                      !.tags = Append(@, p.tagName),
                      !.attribName = "", !.attribValue = ""]
    IN  IF selfClosing THEN SaxCloseTag(opened)
        ELSE [opened EXCEPT !.st = "TEXT", !.tagName = "", !.attributes = <<>>]

\* beginWhiteSpace
BeginWhiteSpace(p, c) ==
    IF c = "<" THEN [p EXCEPT !.st = "OPEN_WAKA"]
    ELSE IF ~IsWhitespace(c)
    THEN [StrictFail(p, "Non-whitespace before first tag.") EXCEPT
             !.textNode = c, !.st = "TEXT"]
    ELSE [p EXCEPT !.st = "BEGIN_WHITESPACE"]

\* the three entity states: the state to return to and the buffer filled
EntityReturn(st) ==
    CASE st = "TEXT_ENTITY" -> "TEXT"
      [] st = "ATTRIB_VALUE_ENTITY_Q" -> "ATTRIB_VALUE_QUOTED"
      [] st = "ATTRIB_VALUE_ENTITY_U" -> "ATTRIB_VALUE_UNQUOTED"

AddToBuffer(p, s) ==
    IF p.st = "TEXT_ENTITY" THEN [p EXCEPT !.textNode = @ \o s]
    ELSE [p EXCEPT !.attribValue = @ \o s]

\* parseEntity followed by the append to the buffer
SaxEntity(p, c) ==
    IF c = ";"
    THEN LET known == p.entity \in DOMAIN SaxEntities
             p1 == IF known THEN p ELSE StrictFail(p, "Invalid character entity")
             parsed == IF known THEN SaxEntities[p.entity] ELSE "&" \o p.entity \o ";"
         IN  [AddToBuffer([p1 EXCEPT !.st = p.st], parsed) EXCEPT
                 !.entity = "", !.st = EntityReturn(p.st)]
    ELSE IF NameStart(c) \/ (p.entity # "" /\ NameBody(c))
    THEN [p EXCEPT !.entity = @ \o c]
    ELSE LET p1 == StrictFail(p, "Invalid character in entity name")
         IN  [AddToBuffer(p1, "&" \o p.entity \o c) EXCEPT
                 !.entity = "", !.st = EntityReturn(p.st)]

\* one character of SAXParser.write
SaxStep(p, c) ==
    CASE p.st \in {"BEGIN", "BEGIN_WHITESPACE"} -> BeginWhiteSpace(p, c)
      [] p.st = "TEXT" ->
            IF c = "<" THEN [p EXCEPT !.st = "OPEN_WAKA"]
            ELSE LET outside == ~p.sawRoot \/ p.closedRoot
                     p1 == IF ~IsWhitespace(c) /\ outside
                           THEN StrictFail(p, "Text data outside of root node.")
                           ELSE p
                 IN  IF c = "&" THEN [p1 EXCEPT !.st = "TEXT_ENTITY"]
                     ELSE [p1 EXCEPT !.textNode = @ \o c]
      [] p.st = "OPEN_WAKA" ->
            IF IsWhitespace(c) THEN p
            ELSE IF NameStart(c) THEN [p EXCEPT !.st = "OPEN_TAG", !.tagName = c]
            ELSE IF c = "/" THEN [p EXCEPT !.st = "CLOSE_TAG", !.tagName = ""]
            ELSE [StrictFail(p, "Unencoded <") EXCEPT
                     !.textNode = "<" \o c, !.st = "TEXT"]
      [] p.st = "OPEN_TAG" ->
            IF NameBody(c) THEN [p EXCEPT !.tagName = @ \o c]
            ELSE LET p1 == NewTag(p)
                 IN  IF c = ">" THEN SaxOpenTag(p1, FALSE)
                     ELSE IF c = "/" THEN [p1 EXCEPT !.st = "OPEN_TAG_SLASH"]
                     ELSE IF ~IsWhitespace(c)
                     THEN [StrictFail(p1, "Invalid character in tag name") EXCEPT
                              !.st = "ATTRIB"]
                     ELSE [p1 EXCEPT !.st = "ATTRIB"]
      [] p.st = "OPEN_TAG_SLASH" ->
            IF c = ">" THEN SaxOpenTag(p, TRUE)
            ELSE [StrictFail(p, "Forward-slash in opening tag not followed by >")
                     EXCEPT !.st = "ATTRIB"]
      [] p.st = "ATTRIB" ->
            IF IsWhitespace(c) THEN p
            ELSE IF c = ">" THEN SaxOpenTag(p, FALSE)
            ELSE IF c = "/" THEN [p EXCEPT !.st = "OPEN_TAG_SLASH"]
            ELSE IF NameStart(c)
            THEN [p EXCEPT !.attribName = c, !.attribValue = "", !.st = "ATTRIB_NAME"]
            ELSE StrictFail(p, "Invalid attribute name")
      [] p.st = "ATTRIB_NAME" ->
            IF c = "=" THEN [p EXCEPT !.st = "ATTRIB_VALUE"]
            ELSE IF c = ">"
            THEN LET p1 == StrictFail(p, "Attribute without value")
                 IN  SaxOpenTag(Attrib([p1 EXCEPT !.attribValue = p.attribName]), FALSE)
            ELSE IF IsWhitespace(c) THEN [p EXCEPT !.st = "ATTRIB_NAME_SAW_WHITE"]
            ELSE IF NameBody(c) THEN [p EXCEPT !.attribName = @ \o c]
            ELSE StrictFail(p, "Invalid attribute name")
      [] p.st = "ATTRIB_NAME_SAW_WHITE" ->
            IF c = "=" THEN [p EXCEPT !.st = "ATTRIB_VALUE"]
            ELSE IF IsWhitespace(c) THEN p
            ELSE LET p1 == Attrib([StrictFail(p, "Attribute without value") EXCEPT
                                      !.attribValue = ""])
                 IN  IF c = ">" THEN SaxOpenTag(p1, FALSE)
                     ELSE IF NameStart(c)
                     THEN [p1 EXCEPT !.attribName = c, !.st = "ATTRIB_NAME"]
                     ELSE [StrictFail(p1, "Invalid attribute name") EXCEPT !.st = "ATTRIB"]
      [] p.st = "ATTRIB_VALUE" ->
            IF IsWhitespace(c) THEN p
            ELSE IF c \in {DQ, SQ} THEN [p EXCEPT !.q = c, !.st = "ATTRIB_VALUE_QUOTED"]
            ELSE [StrictFail(p, "Unquoted attribute value") EXCEPT
                     !.st = "ATTRIB_VALUE_UNQUOTED", !.attribValue = c]
      [] p.st = "ATTRIB_VALUE_QUOTED" ->
            IF c # p.q
            THEN IF c = "&" THEN [p EXCEPT !.st = "ATTRIB_VALUE_ENTITY_Q"]
                 ELSE [p EXCEPT !.attribValue = @ \o c]
            ELSE [Attrib(p) EXCEPT !.q = "", !.st = "ATTRIB_VALUE_CLOSED"]
      [] p.st = "ATTRIB_VALUE_CLOSED" ->
            IF IsWhitespace(c) THEN [p EXCEPT !.st = "ATTRIB"]
            ELSE IF c = ">" THEN SaxOpenTag(p, FALSE)
            ELSE IF c = "/" THEN [p EXCEPT !.st = "OPEN_TAG_SLASH"]
            ELSE IF NameStart(c)
            THEN [StrictFail(p, "No whitespace between attributes") EXCEPT
                     !.attribName = c, !.attribValue = "", !.st = "ATTRIB_NAME"]
            ELSE StrictFail(p, "Invalid attribute name")
      [] p.st = "ATTRIB_VALUE_UNQUOTED" ->
            IF ~(c = ">" \/ IsWhitespace(c))
            THEN IF c = "&" THEN [p EXCEPT !.st = "ATTRIB_VALUE_ENTITY_U"]
                 ELSE [p EXCEPT !.attribValue = @ \o c]
            ELSE IF c = ">" THEN SaxOpenTag(Attrib(p), FALSE)
            ELSE [Attrib(p) EXCEPT !.st = "ATTRIB"]
      [] p.st = "CLOSE_TAG" ->
            IF p.tagName = ""
            THEN IF IsWhitespace(c) THEN p
                 ELSE IF ~NameStart(c) THEN StrictFail(p, "Invalid tagname in closing tag.")
                 ELSE [p EXCEPT !.tagName = c]
            ELSE IF c = ">" THEN SaxCloseTag(p)
            ELSE IF NameBody(c) THEN [p EXCEPT !.tagName = @ \o c]
            ELSE IF ~IsWhitespace(c)
            THEN [StrictFail(p, "Invalid tagname in closing tag") EXCEPT
                     !.st = "CLOSE_TAG_SAW_WHITE"]
            ELSE [p EXCEPT !.st = "CLOSE_TAG_SAW_WHITE"]
      [] p.st = "CLOSE_TAG_SAW_WHITE" ->
            IF IsWhitespace(c) THEN p
            ELSE IF c = ">" THEN SaxCloseTag(p)
            ELSE StrictFail(p, "Invalid characters in closing tag")
      [] p.st \in {"TEXT_ENTITY", "ATTRIB_VALUE_ENTITY_Q", "ATTRIB_VALUE_ENTITY_U"} ->
            SaxEntity(p, c)

RECURSIVE SaxWrite(_, _, _)
\* SAXParser.write(chunk) from character i on
\* (a parser is never in state "": the test has the step on the previous
\* character taken before the next one is read)
SaxWrite(p, chunk, i) ==
    IF i > Len(chunk) \/ p.st = "" THEN p
    ELSE SaxWrite(SaxStep(p, At(chunk, i)), chunk, i + 1)

\* end(parser): what it reports is stored, not thrown
SaxEnd(p) ==
    LET p1 == IF p.sawRoot /\ ~p.closedRoot THEN StrictFail(p, "Unclosed root tag") ELSE p
        p2 == IF p1.st \notin {"BEGIN", "BEGIN_WHITESPACE", "TEXT"}
              THEN StrictFail(p1, "Unexpected end") ELSE p1
    IN  CloseText(p2)

\* what close() returns after a write that stored no failure
SaxClosed(ended) ==
    [threw |-> FALSE, message |-> "", events |-> ended.events, open |-> Len(ended.tags)]

\* close() after write(): it throws the failure write() has stored
SaxClose(written) ==
    IF written.error # <<>>
    THEN [threw |-> TRUE, message |-> written.error[1], events |-> <<>>, open |-> 0]
    ELSE SaxClosed(SaxEnd(written))

\* parser.write(xml).close()
SaxParse(xml) == SaxClose(SaxWrite(SaxParser, xml, 1))

(***************************************************************************)
(* xml2json and json2xml of xml-js, as src/lib/json-utils.ts calls them:   *)
(* spaces 4, attributes kept, comments, declarations, instructions and     *)
(* doctypes ignored, no trimming, blank text dropped.  Of the keys the     *)
(* compact writer treats specially the modelled values use _text and       *)
(* _attributes only.                                                       *)
(***************************************************************************)
RECURSIVE XmlChildren(_, _)
\* the nodes the events from i on add to the current element, up to its
\* close event: onStartElement, onText (blank text is dropped), onEndElement
XmlChildren(ev, i) ==
    IF i > Len(ev) \/ ev[i].e = "close" THEN [nodes |-> <<>>, i |-> i]
    ELSE IF ev[i].e = "text"
    THEN LET rest == XmlChildren(ev, i + 1)
             node == [kind |-> "text", n |-> ev[i].n, a |-> <<>>, c |-> <<>>]
         IN  [nodes |-> (IF Trim(ev[i].n) = "" THEN <<>> ELSE <<node>>) \o rest.nodes,
              i |-> rest.i]
    ELSE LET inner == XmlChildren(ev, i + 1)
             rest == XmlChildren(ev, inner.i + 1)
             node == [kind |-> "element", n |-> ev[i].n, a |-> ev[i].a, c |-> inner.nodes]
         IN  [nodes |-> <<node>> \o rest.nodes, i |-> rest.i]

RECURSIVE NonCompact(_)
\* an element or text of the non-compact result
NonCompact(node) ==
    IF node.kind = "text"
    THEN Obj(<<[k |-> "type", v |-> Str("text")], [k |-> "text", v |-> Str(node.n)]>>)
    ELSE Obj(<<[k |-> "type", v |-> Str("element")], [k |-> "name", v |-> Str(node.n)]>>
             \o (IF node.a = <<>> THEN <<>>
                 ELSE <<[k |-> "attributes", v |-> Obj(node.a)]>>)
             \o (IF node.c = <<>> THEN <<>>
                 ELSE <<[k |-> "elements",
                         v |-> Arr([i \in 1..Len(node.c) |-> NonCompact(node.c[i])])]>>))

\* JavaScript truthiness
Truthy(v) ==
    CASE v.t = "undefined" -> FALSE
      [] v.t = "null" -> FALSE
      [] v.t = "bool" -> v.b
      [] v.t = "num" -> v.n # 0
      [] v.t = "str" -> v.s # ""
      [] OTHER -> TRUE

\* addField / onStartElement in compact mode: currentElement[key] becomes the
\* value, or an array once the key comes again
CompactAdd(members, key, value) ==
    IF HasKey(members, key) /\ Truthy(Get(Obj(members), key))
    THEN LET old == Get(Obj(members), key)
         IN  IF old.t = "arr" THEN ObjSet(members, key, Arr(Append(old.a, value)))
             ELSE ObjSet(members, key, Arr(<<old, value>>))
    ELSE ObjSet(members, key, value)

RECURSIVE Compact(_, _)
RECURSIVE CompactFill(_, _, _)
\* the compact object of an element with these attributes and children
Compact(attributes, children) ==
    Obj(CompactFill(IF attributes = <<>> THEN <<>>
                    ELSE <<[k |-> "_attributes", v |-> Obj(attributes)]>>,
                    children, 1))

CompactFill(members, children, i) ==
    IF i > Len(children) THEN members
    ELSE LET node == children[i]
         IN  CompactFill(
                IF node.kind = "text" THEN CompactAdd(members, "_text", Str(node.n))
                ELSE CompactAdd(members, node.n, Compact(node.a, node.c)),
                children, i + 1)

\* the message of the TypeError JSON.stringify throws on the parent links
\* of an element that was never closed
CircularMessage == "Converting circular structure to JSON"

\* the result object of xml2js once the parser has closed
XmlResult(nodes, compact) ==
    IF compact THEN Compact(<<>>, nodes)
    ELSE IF nodes = <<>> THEN Obj(<<>>)
    ELSE Obj(<<[k |-> "elements",
                v |-> Arr([i \in 1..Len(nodes) |-> NonCompact(nodes[i])])]>>)

\* JSON.stringify of the result of xml2js, or Thrown
XmlStringify(parsed, compact) ==
    IF parsed.threw THEN Thrown(parsed.message)
    ELSE IF parsed.open > 0 THEN Thrown(CircularMessage)
    ELSE [json |-> JsonStringify(XmlResult(XmlChildren(parsed.events, 1).nodes, compact), 4)]

\* xml2json(xml, {compact, spaces: 4, ...}): the JSON text, or Thrown
xml2json(xml, compact) == XmlStringify(SaxParse(xml), compact)

RECURSIVE ReplaceAll(_, _, _)
\* s.replace(/p/g, r) for a literal, non-empty p
ReplaceAll(s, p, r) ==
    LET i == IndexOf(s, p)
    IN  IF i = 0 THEN s
        ELSE Before(s, i) \o r \o ReplaceAll(From(s, i + Len(p)), p, r)

RECURSIVE JsString(_)
RECURSIVE JoinItems(_, _)
\* '' + v
JsString(v) ==
    CASE v.t = "undefined" -> "undefined"
      [] v.t = "null" -> "null"
      [] v.t = "bool" -> IF v.b THEN "true" ELSE "false"
      [] v.t = "num" -> NumToString(v.n)
      [] v.t = "str" -> v.s
      [] v.t = "arr" -> JoinItems(v.a, 1)
      [] v.t = "obj" -> "[object Object]"

\* Array.prototype.join(','): null and undefined items join as ''
JoinItems(items, i) ==
    IF i > Len(items) THEN ""
    ELSE (IF i > 1 THEN "," ELSE "")
            \o (IF items[i].t \in {"null", "undefined"} THEN "" ELSE JsString(items[i]))
            \o JoinItems(items, i + 1)

\* the own enumerable properties for (key in v) visits
Entries(v) ==
    CASE v.t = "obj" -> v.m
      [] v.t = "arr" -> [i \in 1..Len(v.a) |-> [k |-> NumToString(i - 1), v |-> v.a[i]]]
      [] v.t = "str" -> [i \in 1..Len(v.s) |-> [k |-> NumToString(i - 1), v |-> Str(At(v.s, i))]]
      [] OTHER -> <<>>

\* writeText
WriteText(v) ==
    ReplaceAll(ReplaceAll(ReplaceAll(ReplaceAll(JsString(v),
        "&amp;", "&"), "&", "&amp;"), "<", "&lt;"), ">", "&gt;")

\* writeIndentation with spaces = 4
WriteIndentation(depth, firstLine) ==
    (IF firstLine THEN "" ELSE NL) \o Repeat("    ", depth)

RECURSIVE WriteAttributeEntries(_, _)
WriteAttributeEntries(entries, i) ==
    IF i > Len(entries) THEN ""
    ELSE (IF entries[i].v.t \in {"null", "undefined"} THEN ""
          ELSE SP \o entries[i].k \o "=" \o DQ
                  \o ReplaceAll(JsString(entries[i].v), DQ, "&quot;") \o DQ)
            \o WriteAttributeEntries(entries, i + 1)

\* writeAttributes
WriteAttributes(attributes) == WriteAttributeEntries(Entries(attributes), 1)

\* hasContentCompact
HasContentCompact(element, anyContent) ==
    \E i \in 1..Len(Entries(element)) :
        LET key == Entries(element)[i].k
        IN  /\ key \notin {"_attributes", "_parent"}
            /\ (key = "_text" => anyContent)

RECURSIVE WriteElementCompact(_, _, _, _)
RECURSIVE WriteNodesCompact(_, _, _, _, _)
RECURSIVE WriteEntriesCompact(_, _, _, _)

\* writeElementCompact
WriteElementCompact(element, name, depth, indent) ==
    IF element.t \in {"undefined", "null"} \/ element = Str("")
    THEN "<" \o name \o "/>"
    ELSE IF element.t \notin {"obj", "arr"}
    THEN "<" \o name \o ">" \o WriteText(element) \o "</" \o name \o ">"
    ELSE "<" \o name
            \o (IF element.t = "obj" /\ HasKey(element.m, "_attributes")
                               /\ Truthy(Get(element, "_attributes"))
                THEN WriteAttributes(Get(element, "_attributes")) ELSE "")
            \o (IF HasContentCompact(element, TRUE)
                THEN ">" \o WriteEntriesCompact(Entries(element), 1, depth + 1, FALSE)
                         \o (IF indent THEN WriteIndentation(depth, FALSE) ELSE "")
                         \o "</" \o name \o ">"
                ELSE "/>")

\* the inner loop of writeElementsCompact over the nodes under one key; it
\* returns what it pushed and whether the next push still opens the output
WriteNodesCompact(key, nodes, j, depth, firstLine) ==
    IF j > Len(nodes) THEN [xml |-> "", firstLine |-> firstLine]
    ELSE LET skipped == key \in {"_attributes", "_parent"}
             piece == IF skipped THEN ""
                      ELSE IF key = "_text" THEN WriteText(nodes[j])
                      ELSE WriteIndentation(depth, firstLine)
                              \o WriteElementCompact(nodes[j], key, depth,
                                                     HasContentCompact(nodes[j], FALSE))
             rest == WriteNodesCompact(key, nodes, j + 1, depth,
                                       IF skipped THEN firstLine ELSE FALSE)
         IN  [xml |-> piece \o rest.xml, firstLine |-> rest.firstLine]

\* writeElementsCompact, from property e on
WriteEntriesCompact(entries, e, depth, firstLine) ==
    IF e > Len(entries) THEN ""
    ELSE LET value == entries[e].v
             nodes == IF value.t = "arr" THEN value.a ELSE <<value>>
             written == WriteNodesCompact(entries[e].k, nodes, 1, depth, firstLine)
         IN  written.xml \o WriteEntriesCompact(entries, e + 1, depth, written.firstLine)

\* hasContent of the non-compact writer: some child is not a text
HasContent(element) ==
    /\ HasKey(element.m, "elements")
    /\ \E i \in 1..Len(Get(element, "elements").a) :
          Get(Get(element, "elements").a[i], "type") # Str("text")

RECURSIVE WriteElement(_, _)
RECURSIVE WriteElements(_, _, _, _)

\* writeElement
WriteElement(element, depth) ==
    LET name == Get(element, "name").s
        elements == IF HasKey(element.m, "elements") THEN Get(element, "elements").a
                    ELSE <<>>
    IN  "<" \o name
            \o (IF HasKey(element.m, "attributes")
                THEN WriteAttributes(Get(element, "attributes")) ELSE "")
            \o (IF elements # <<>>
                THEN ">" \o WriteElements(elements, 1, depth + 1, FALSE)
                         \o (IF HasContent(element) THEN NL \o Repeat("    ", depth) ELSE "")
                         \o "</" \o name \o ">"
                ELSE "/>")

\* writeElements, from element i on; firstLine: nothing is written yet
WriteElements(elements, i, depth, firstLine) ==
    IF i > Len(elements) THEN ""
    ELSE LET element == elements[i]
             piece == IF Get(element, "type") = Str("text")
                      THEN WriteText(Get(element, "text"))
                      ELSE WriteIndentation(depth, firstLine) \o WriteElement(element, depth)
         IN  piece \o WriteElements(elements, i + 1, depth, firstLine /\ piece = "")

\* json2xml(js, {compact, spaces: 4, ...})
json2xml(js, compact) ==
    IF compact THEN WriteEntriesCompact(Entries(js), 1, 0, TRUE)
    ELSE IF HasKey(js.m, "elements")
    THEN WriteElements(Get(js, "elements").a, 1, 0, TRUE)
    ELSE ""

(***************************************************************************)
(* formatXml, jsonToXml, normalizeXmlJson and xmlToJson,                   *)
(* src/lib/json-utils.ts:470-532, 645-690, 765-812, 817-916                *)
(***************************************************************************)
\* lines 503-525, jsonData being what JSON.parse made of the reader's text
FormatXmlData(jsonData) ==
    IF ~jsonData.ok THEN Failure("Failed to parse XML: " \o JsonErrorMessage)
    ELSE Success(Trim(json2xml(jsonData.v, FALSE)))

\* lines 495-531, jsonResult being what xml2json returned or threw
FormatXmlResult(jsonResult) ==
    IF IsThrown(jsonResult) THEN Failure(jsonResult.message)
    ELSE FormatXmlData(JsonParse(jsonResult.json))

\* lines 475-493
FormatCleanedXml(cleanedXml) ==
    IF ~Includes(cleanedXml, "<") \/ ~Includes(cleanedXml, ">")
    THEN Failure("Invalid XML format")
    ELSE FormatXmlResult(xml2json(cleanedXml, FALSE))

formatXml(xmlString) == FormatCleanedXml(Trim(xmlString))

\* lines 650-670: the value handed to the XML writer
XmlData(data) ==
    IF data.t = "arr"
    THEN Obj(<<[k |-> "root", v |-> Obj(<<[k |-> "item", v |-> data]>>)]>>)
    ELSE IF data.t # "obj"
    THEN Obj(<<[k |-> "root",
                v |-> Obj(<<[k |-> "_text", v |-> Str(JsString(data))]>>)]>>)
    ELSE IF Len(Keys(data)) = 1 /\ Keys(data)[1] = "root" THEN data
    ELSE Obj(<<[k |-> "root", v |-> data]>>)

\* lines 647-689, parsed being the outcome of JSON.parse
JsonToXmlOf(parsed) ==
    IF ~parsed.ok THEN Failure(JsonErrorMessage)
    ELSE Success(Trim(json2xml(XmlData(parsed.v), TRUE)))

jsonToXml(jsonString) == JsonToXmlOf(JsonParse(jsonString))

\* whether Number(s) is Infinity or -Infinity
IsInfinite(s) == Trim(s) \in {"Infinity", "+Infinity", "-Infinity"}

\* whether Number(s) is a number rather than NaN, for the modelled texts:
\* blank, or an optional sign and decimal digits or Infinity between white
\* space
IsNumeric(s) ==
    LET t == Trim(s)
        d == IF t # "" /\ At(t, 1) \in {"-", "+"} THEN From(t, 2) ELSE t
    IN  \/ t = ""
        \/ d = "Infinity"
        \/ d # "" /\ \A i \in 1..Len(d) : At(d, i) \in Digits

\* Number(s) of such a text
ToNumber(s) ==
    LET t == Trim(s)
    IN  IF t = "" THEN 0
        ELSE IF At(t, 1) = "-" THEN 0 - NatOfDigits(From(t, 2), 0)
        ELSE IF At(t, 1) = "+" THEN NatOfDigits(From(t, 2), 0)
        ELSE NatOfDigits(t, 0)

\* Number(s) as a value
NumberValue(s) ==
    IF IsInfinite(s) THEN Infinite(At(Trim(s), 1) = "-") ELSE Num(ToNumber(s))

RECURSIVE normalizeXmlJson(_)
RECURSIVE NormalizeKeys(_, _, _)
normalizeXmlJson(obj) ==
    IF obj.t \in {"null", "undefined"} THEN obj
    ELSE IF obj.t = "arr" THEN Arr([i \in 1..Len(obj.a) |-> normalizeXmlJson(obj.a[i])])
    ELSE IF obj.t = "obj"
    THEN IF Len(Keys(obj)) = 1 /\ Keys(obj)[1] = "_text"
         THEN LET textValue == Get(obj, "_text")
              IN  IF textValue = Str("true") THEN Bool(TRUE)
                  ELSE IF textValue = Str("false") THEN Bool(FALSE)
                  ELSE IF textValue.t = "str" /\ IsNumeric(textValue.s) /\ textValue.s # ""
                  THEN NumberValue(textValue.s)
                  ELSE textValue
         ELSE Obj(NormalizeKeys(obj, 1, <<>>))
    ELSE obj

\* the loop over the keys of obj from the i-th on, result being filled
NormalizeKeys(obj, i, result) ==
    IF i > Len(obj.m) THEN result
    ELSE LET key == obj.m[i].k
         IN  IF key \in {"_text", "_attributes", "_cdata"}
             THEN NormalizeKeys(obj, i + 1, result)
             ELSE NormalizeKeys(obj, i + 1,
                                ObjSet(result, key, normalizeXmlJson(obj.m[i].v)))

\* lines 875-901
XmlToJsonNormalized(normalized) ==
    IF normalized.t = "obj" /\ Len(Keys(normalized)) = 1 /\ Keys(normalized)[1] = "root"
    THEN IF Get(normalized, "root").t = "obj"
              /\ Len(Keys(Get(normalized, "root"))) = 1
              /\ Keys(Get(normalized, "root"))[1] = "item"
              /\ Get(Get(normalized, "root"), "item").t = "arr"
         THEN Success(JsonStringify(Get(Get(normalized, "root"), "item"), 4))
         ELSE Success(JsonStringify(Get(normalized, "root"), 4))
    ELSE Success(JsonStringify(normalized, 4))

\* lines 861-873, jsonData being the outcome of JSON.parse(result)
XmlToJsonData(jsonData) ==
    IF ~jsonData.ok THEN Failure("XML conversion failed: " \o JsonErrorMessage)
    ELSE XmlToJsonNormalized(normalizeXmlJson(jsonData.v))

\* lines 844-859 and the catch of lines 902-915, result being what xml2json
\* returned or threw
XmlToJsonResult(result) ==
    IF IsThrown(result)
    THEN IF Includes(result.message, "Text data outside of root node")
         THEN Failure("XML format error: text data exists outside root node, please ensure XML has only one root node")
         ELSE Failure("XML conversion failed: " \o result.message)
    ELSE IF ~StartsWithAt(Trim(result.json), 1, "{") /\ ~StartsWithAt(Trim(result.json), 1, "[")
    THEN Failure("XML conversion failed: result is not valid JSON")
    ELSE XmlToJsonData(JsonParse(result.json))

\* lines 822-842
XmlToJsonCleaned(cleanedXml) ==
    IF ~Includes(cleanedXml, "<") \/ ~Includes(cleanedXml, ">")
    THEN Failure("XML format error: not a valid XML format")
    ELSE XmlToJsonResult(xml2json(cleanedXml, TRUE))

xmlToJson(xmlString) == XmlToJsonCleaned(Trim(xmlString))

(***************************************************************************)
(* yaml.dump(data, {indent: 4}) and yaml.load(text) of js-yaml, called at  *)
(* src/lib/json-utils.ts:698, 923 and 956.  The model covers a fragment of *)
(* YAML and is undefined outside it (TLC stops if a check ever leaves it): *)
(* values whose strings are words of letters, digits and spaces, and whose *)
(* arrays hold scalars and empty collections; and texts that are blank,    *)
(* strict JSON (YAML's flow style), strict JSON cut short of its closing   *)
(* braces and brackets, or block style as yaml.dump writes it.             *)
(***************************************************************************)
\* the plain scalars the loader resolves to null and to booleans
YamlNulls == {"", "~", "null", "Null", "NULL"}
YamlTrues == {"true", "True", "TRUE"}
YamlFalses == {"false", "False", "FALSE"}

\* the words the dumper quotes because YAML 1.1 read them as booleans
DeprecatedBooleans ==
    {"y", "Y", "yes", "Yes", "YES", "on", "On", "ON",
     "n", "N", "no", "No", "NO", "off", "Off", "OFF"}

\* [-+]?[0-9]+ without a leading zero
IsYamlInt(s) ==
    LET d == IF s # "" /\ At(s, 1) \in {"-", "+"} THEN From(s, 2) ELSE s
    IN  /\ d # ""
        /\ \A i \in 1..Len(d) : At(d, i) \in Digits
        /\ (At(d, 1) = "0" => Len(d) = 1)

\* the strings the model dumps: words of letters and spaces, and numerals
IsYamlWord(s) ==
    \/ \A i \in 1..Len(s) : At(s, i) \in LowerLetters \cup UpperLetters \cup {SP}
    \/ IsYamlInt(s) /\ At(s, 1) \in Digits

\* writeScalar on a word: plain unless it is empty, starts or ends with a
\* space, or would be read back as something other than this string
DumpString(s) ==
    CASE IsYamlWord(s) ->
        IF \/ s = ""
           \/ s \in DeprecatedBooleans
           \/ At(s, 1) = SP \/ At(s, Len(s)) = SP
           \/ s \in YamlNulls \cup YamlTrues \cup YamlFalses
           \/ IsYamlInt(s)
        THEN SQ \o s \o SQ
        ELSE s

\* whether the value is one the model dumps
RECURSIVE DumpModelled(_)
DumpModelled(v) ==
    CASE v.t \in {"null", "bool", "num"} -> TRUE
      [] v.t = "str" -> IsYamlWord(v.s)
      [] v.t = "arr" -> \A i \in 1..Len(v.a) :
                            \/ IsScalar(v.a[i]) /\ DumpModelled(v.a[i])
                            \/ v.a[i] \in {Arr(<<>>), Obj(<<>>)}
      [] v.t = "obj" -> \A i \in 1..Len(v.m) :
                            /\ DumpModelled(Str(v.m[i].k))
                            /\ DumpModelled(v.m[i].v)
      [] OTHER -> FALSE

\* generateNextLine: a new line indented for the level
NextLine(level) == NL \o Repeat("    ", level)

RECURSIVE WriteNode(_, _, _)
RECURSIVE WriteBlockSequence(_, _, _, _)
RECURSIVE WriteBlockMapping(_, _, _, _)

\* writeNode(state, level, object, true, compact): state.dump
WriteNode(level, object, compact) ==
    CASE object.t = "null" -> "null"
      [] object.t = "bool" -> IF object.b THEN "true" ELSE "false"
      [] object.t = "num" -> NumToString(object.n)
      [] object.t = "str" -> DumpString(object.s)
      [] object.t = "arr" ->
            IF object.a = <<>> THEN "[]"
            ELSE WriteBlockSequence(level, object.a, 1, compact)
      [] object.t = "obj" ->
            IF object.m = <<>> THEN "{}"
            ELSE WriteBlockMapping(level, object.m, 1, compact)

\* writeBlockSequence from item i on
WriteBlockSequence(level, items, i, compact) ==
    IF i > Len(items) THEN ""
    ELSE (IF ~compact \/ i > 1 THEN NextLine(level) ELSE "")
            \o (CASE IsScalar(items[i]) \/ items[i] \in {Arr(<<>>), Obj(<<>>)} ->
                    "- " \o WriteNode(level + 1, items[i], TRUE))
            \o WriteBlockSequence(level, items, i + 1, compact)

\* writeBlockMapping from pair i on
WriteBlockMapping(level, members, i, compact) ==
    IF i > Len(members) THEN ""
    ELSE (IF ~compact \/ i > 1 THEN NextLine(level) ELSE "")
            \o DumpString(members[i].k)
            \o (IF members[i].v.t \in {"arr", "obj"} /\ members[i].v \notin {Arr(<<>>), Obj(<<>>)}
                THEN ":" ELSE ": ")
            \o WriteNode(level + 1, members[i].v, FALSE)
            \o WriteBlockMapping(level, members, i + 1, compact)

\* yaml.dump(data, {indent: 4})
YamlDump(data) == WriteNode(0, data, TRUE) \o NL

RECURSIVE OpenContainers(_, _, _, _)
\* the closers of the braces and brackets of s still open at its end, the
\* innermost first; inString: position i is inside a double-quoted string
OpenContainers(s, i, inString, closers) ==
    IF i > Len(s) THEN closers
    ELSE LET c == At(s, i)
         IN  IF inString
             THEN IF c = BS THEN OpenContainers(s, i + 2, TRUE, closers)
                  ELSE OpenContainers(s, i + 1, c # DQ, closers)
             ELSE CASE c = DQ -> OpenContainers(s, i + 1, TRUE, closers)
                    [] c = "{" -> OpenContainers(s, i + 1, FALSE, "}" \o closers)
                    [] c = "[" -> OpenContainers(s, i + 1, FALSE, "]" \o closers)
                    [] c \in {"}", "]"} -> OpenContainers(s, i + 1, FALSE, From(closers, 2))
                    [] OTHER -> OpenContainers(s, i + 1, FALSE, closers)

\* what the loader returns or throws
Loaded(v) == [threw |-> FALSE, message |-> "", v |-> v]
YamlException(message) == [threw |-> TRUE, message |-> message, v |-> Undefined]

\* a flow collection or double-quoted scalar: strict JSON is read as JSON
\* reads it; the end of the input inside a collection is an error
FlowLoaded(input, parsed) ==
    CASE parsed.ok -> Loaded(parsed.v)
      [] ~parsed.ok /\ OpenContainers(input, 1, FALSE, "") # ""
                    /\ JsonParse(input \o OpenContainers(input, 1, FALSE, "")).ok ->
            YamlException("unexpected end of the stream within a flow collection")

FlowLoad(input) == FlowLoaded(input, JsonParse(input))

\* a scalar or an empty collection written on one line
InlineLoad(t) ==
    CASE t = "[]" -> Arr(<<>>)
      [] t = "{}" -> Obj(<<>>)
      [] t # "" /\ At(t, 1) = SQ /\ Len(t) >= 2 /\ At(t, Len(t)) = SQ
              /\ IsYamlWord(SubSeq(t, 2, Len(t) - 1)) -> Str(SubSeq(t, 2, Len(t) - 1))
      [] t \in YamlNulls -> Null
      [] t \in YamlTrues -> Bool(TRUE)
      [] t \in YamlFalses -> Bool(FALSE)
      [] IsYamlInt(t) -> Num(ToNumber(t))
      [] IsYamlWord(t) /\ t \notin YamlNulls \cup YamlTrues \cup YamlFalses
              /\ Trim(t) = t -> Str(t)

RECURSIVE SplitLines(_)
\* the lines of the input, each as its indentation and what follows it
SplitLines(s) ==
    IF s = "" THEN <<>>
    ELSE LET n == IndexOf(s, NL)
             line == IF n = 0 THEN s ELSE Before(s, n)
             ind == SkipSet(line, 1, {SP}) - 1
         IN  (IF ind = Len(line) THEN <<>>
              ELSE <<[ind |-> ind, body |-> From(line, ind + 1)]>>)
                \o (IF n = 0 THEN <<>> ELSE SplitLines(From(s, n + 1)))

\* the key of a line "key: value" or "key:"
LineKey(body) == InlineLoad(Before(body, IndexOf(body, ":"))).s

\* what follows the colon and its space
LineRest(body) ==
    CASE body = Before(body, IndexOf(body, ":")) \o ":" -> ""
      [] StartsWithAt(body, IndexOf(body, ":"), ": ") -> From(body, IndexOf(body, ":") + 2)

RECURSIVE BlockNode(_, _)
RECURSIVE BlockSequence(_, _, _, _)
RECURSIVE BlockMapping(_, _, _, _)

\* the node that starts at line i; it returns the value and the next line
BlockNode(lines, i) ==
    IF StartsWithAt(lines[i].body, 1, "- ")
    THEN BlockSequence(lines, i, lines[i].ind, <<>>)
    ELSE IF Includes(lines[i].body, ":")
    THEN BlockMapping(lines, i, lines[i].ind, <<>>)
    ELSE [v |-> InlineLoad(lines[i].body), i |-> i + 1]

\* the items "- item" at indentation n from line i on
BlockSequence(lines, i, n, items) ==
    IF i > Len(lines) \/ lines[i].ind < n THEN [v |-> Arr(items), i |-> i]
    ELSE CASE lines[i].ind = n /\ StartsWithAt(lines[i].body, 1, "- ") ->
            BlockSequence(lines, i + 1, n,
                          Append(items, InlineLoad(From(lines[i].body, 3))))

\* the value of the pair at line i (the nested node when the line ends with
\* the colon) and the line after it
PairValue(lines, i, n) ==
    IF LineRest(lines[i].body) # ""
    THEN [v |-> InlineLoad(LineRest(lines[i].body)), i |-> i + 1]
    ELSE CASE i < Len(lines) /\ lines[i + 1].ind > n -> BlockNode(lines, i + 1)

\* the next pairs once the pair at line i is read
BlockMappingNext(lines, i, n, members, value) ==
    CASE ~HasKey(members, LineKey(lines[i].body)) ->
        BlockMapping(lines, value.i, n,
                     ObjSet(members, LineKey(lines[i].body), value.v))

\* the pairs "key: value" at indentation n from line i on
BlockMapping(lines, i, n, members) ==
    IF i > Len(lines) \/ lines[i].ind < n THEN [v |-> Obj(members), i |-> i]
    ELSE CASE lines[i].ind = n /\ ~StartsWithAt(lines[i].body, 1, "- ") ->
            BlockMappingNext(lines, i, n, members, PairValue(lines, i, n))

\* a block-style document: one node over all its lines
BlockLoaded(lines, node) ==
    CASE node.i > Len(lines) -> Loaded(node.v)

BlockLoad(input) == BlockLoaded(SplitLines(input), BlockNode(SplitLines(input), 1))

\* yaml.load(input)
YamlLoad(input) ==
    LET first == SkipSet(input, 1, {SP, NL})
    IN  CASE input = Repeat(SP, Len(input)) \/ input = Repeat(SP, Len(input) - 1) \o NL ->
                Loaded(Undefined)
          [] first <= Len(input) /\ At(input, first) \in {"{", "[", DQ} -> FlowLoad(input)
          [] first <= Len(input) /\ At(input, first) \notin {"{", "[", DQ} -> BlockLoad(input)

(***************************************************************************)
(* jsonToYaml, yamlToJson and formatYaml,                                  *)
(* src/lib/json-utils.ts:695-709, 921-934, 537-567                         *)
(***************************************************************************)
JsonToYamlOf(parsed) ==
    IF parsed.ok THEN Success(YamlDump(parsed.v))
    ELSE Failure(JsonErrorMessage)

jsonToYaml(jsonString) == JsonToYamlOf(JsonParse(jsonString))

\* JSON.stringify(undefined) is undefined: the record then has no result
YamlToJsonOf(loaded) ==
    IF loaded.threw THEN Failure(loaded.message)
    ELSE IF loaded.v = Undefined
         THEN [success |-> TRUE, result |-> <<>>, error |-> <<>>]
         ELSE Success(JsonStringify(loaded.v, 4))

yamlToJson(yamlString) == YamlToJsonOf(YamlLoad(yamlString))

\* !r.success || !r.result
NoResult(r) == ~r.success \/ r.result = <<>> \/ r.result = <<"">>

\* r.error || fallback
ErrorOr(r, fallback) ==
    IF r.error = <<>> \/ r.error = <<"">> THEN fallback ELSE r.error[1]

FormatYamlResult(yamlResult) ==
    IF NoResult(yamlResult)
    THEN Failure(ErrorOr(yamlResult, "Failed to format YAML"))
    ELSE Success(yamlResult.result[1])

FormatYamlOf(jsonResult) ==
    IF NoResult(jsonResult)
    THEN Failure(ErrorOr(jsonResult, "Invalid YAML"))
    ELSE FormatYamlResult(jsonToYaml(jsonResult.result[1]))

formatYaml(yamlString) == FormatYamlOf(yamlToJson(yamlString))

(***************************************************************************)
(* detectFormat, src/lib/json-utils.ts:939-978                             *)
(***************************************************************************)
\* the null the detector, and a caller of the converter, give for no format
NoFormat == "null"

DetectJson(parsed) == IF parsed.ok THEN "json" ELSE NoFormat

\* a detector that takes every text that loads as YAML for YAML
DetectLoaded_YamlFirst(trimmed, parsed) == "yaml"

\* the text loaded as YAML: it is YAML unless it is JSON as well
DetectLoaded(trimmed, parsed) ==
    IF ~parsed.ok THEN "yaml" ELSE DetectJson(JsonParse(trimmed))

DetectYaml(trimmed, loaded) ==
    IF ~loaded.threw THEN DetectLoaded(trimmed, JsonParse(trimmed))
    ELSE DetectJson(JsonParse(trimmed))

\* a detector that takes a text for XML without looking for a closing tag
DetectTrimmed_NoClosingTag(trimmed) ==
    IF StartsWithAt(trimmed, 1, "<") /\ Includes(trimmed, ">")
    THEN "xml"
    ELSE IF Includes(trimmed, ":") /\ (Includes(trimmed, NL) \/ Includes(trimmed, "  "))
    THEN DetectYaml(trimmed, YamlLoad(trimmed))
    ELSE DetectJson(JsonParse(trimmed))

DetectTrimmed(trimmed) ==
    IF StartsWithAt(trimmed, 1, "<") /\ Includes(trimmed, ">") /\ Includes(trimmed, "</")
    THEN "xml"
    ELSE IF Includes(trimmed, ":") /\ (Includes(trimmed, NL) \/ Includes(trimmed, "  "))
    THEN DetectYaml(trimmed, YamlLoad(trimmed))
    ELSE DetectJson(JsonParse(trimmed))

detectFormat(content) ==
    IF Trim(content) = "" THEN NoFormat ELSE DetectTrimmed(Trim(content))

(***************************************************************************)
(* convertToJson and convertFormat, src/lib/json-utils.ts:983-1034         *)
(***************************************************************************)
FormatTypes == {"json", "xml", "yaml"}

ConvertJson(content, parsed) ==
    IF parsed.ok THEN Success(content)
    ELSE Failure("Unrecognized content format")

convertToJson(content, currentType) ==
    CASE currentType \in {NoFormat, "json"} -> ConvertJson(content, JsonParse(content))
      [] currentType = "xml" -> xmlToJson(content)
      [] currentType = "yaml" -> yamlToJson(content)
      [] OTHER -> Failure("Unsupported type")

ConvertFrom(jsonResult, toType) ==
    IF NoResult(jsonResult)
    THEN Failure(ErrorOr(jsonResult, "Unable to convert to JSON"))
    ELSE CASE toType = "json" -> formatJson(jsonResult.result[1])
           [] toType = "xml" -> jsonToXml(jsonResult.result[1])
           [] toType = "yaml" -> jsonToYaml(jsonResult.result[1])
           [] OTHER -> Failure("Unsupported target format")

\* a converter that prints JSON again when asked to convert JSON to JSON
convertFormat_Reprints(content, fromType, toType) ==
    IF fromType = toType /\ fromType = "json" THEN formatJson(content)
    ELSE IF fromType = toType THEN Success(content)
    ELSE ConvertFrom(convertToJson(content, fromType), toType)

convertFormat(content, fromType, toType) ==
    IF fromType = toType THEN Success(content)
    ELSE ConvertFrom(convertToJson(content, fromType), toType)


(***************************************************************************)
(* getJsonStats, src/lib/json-utils.ts:283-317                             *)
(***************************************************************************)
Max(a, b) == IF a >= b THEN a ELSE b

\* Object.values(obj), or the items of an array
ChildValues(x) ==
    CASE x.t = "arr" -> x.a
      [] x.t = "obj" -> [i \in 1..Len(x.m) |-> x.m[i].v]
      [] OTHER -> <<>>

RECURSIVE Traverse(_, _, _)
RECURSIVE TraverseEach(_, _, _, _)

\* a traversal that takes the depth of containers only
Traverse_ContainersDeep(x, depth, acc) ==
    TraverseEach(ChildValues(x), 1, depth + 1,
                 [nodeCount |-> acc.nodeCount + 1,
                  maxDepth |-> IF x.t \in {"arr", "obj"}
                               THEN Max(acc.maxDepth, depth) ELSE acc.maxDepth])

\* traverse(obj, depth) from the counts in acc
Traverse(x, depth, acc) ==
    TraverseEach(ChildValues(x), 1, depth + 1,
                 [nodeCount |-> acc.nodeCount + 1,
                  maxDepth |-> Max(acc.maxDepth, depth)])

TraverseEach(items, n, depth, acc) ==
    IF n > Len(items) THEN acc
    ELSE TraverseEach(items, n + 1, depth, Traverse(items[n], depth, acc))

\* the null returned for text that does not parse
NoStats == [null |-> TRUE]

\* statistics that count the root once more
StatsOf_CountsRootTwice(jsonString, counts) ==
    [nodeCount |-> counts.nodeCount + 1, depth |-> counts.maxDepth,
     size |-> ByteSize(jsonString)]

StatsOf(jsonString, counts) ==
    [nodeCount |-> counts.nodeCount, depth |-> counts.maxDepth,
     size |-> ByteSize(jsonString)]

StatsOfParsed(jsonString, parsed) ==
    IF parsed.ok
    THEN StatsOf(jsonString, Traverse(parsed.v, 0, [nodeCount |-> 0, maxDepth |-> 0]))
    ELSE NoStats

getJsonStats(jsonString) == StatsOfParsed(jsonString, JsonParse(jsonString))

(***************************************************************************)
(* getJsonPathAtPosition, src/lib/json-utils.ts:322-392                    *)
(***************************************************************************)
Min(a, b) == IF a <= b THEN a ELSE b

PathScan ==
    [currentKey |-> "", inString |-> FALSE, escaped |-> FALSE, stack |-> <<>>]

Frame(type) == [type |-> type, key |-> "", index |-> 0]

Top(stack) == stack[Len(stack)]
Pop(stack) == IF stack = <<>> THEN <<>> ELSE SubSeq(stack, 1, Len(stack) - 1)
SetTop(stack, frame) == Append(Pop(stack), frame)

\* one turn of the loop, on the character char
PathStep(st, char) ==
    IF st.escaped THEN [st EXCEPT !.escaped = FALSE]
    ELSE IF char = BS THEN [st EXCEPT !.escaped = TRUE]
    ELSE IF char = DQ THEN [st EXCEPT !.inString = ~st.inString]
    ELSE IF st.inString THEN [st EXCEPT !.currentKey = st.currentKey \o char]
    ELSE CASE char = "{" -> [st EXCEPT !.stack = Append(st.stack, Frame("object"))]
           [] char = "[" -> [st EXCEPT !.stack = Append(st.stack, Frame("array"))]
           [] char \in {"}", "]"} -> [st EXCEPT !.stack = Pop(st.stack)]
           [] char = ":" /\ st.stack # <<>> /\ Top(st.stack).type = "object" ->
                [st EXCEPT !.stack = SetTop(st.stack,
                                            [Top(st.stack) EXCEPT !.key = st.currentKey]),
                           !.currentKey = ""]
           [] char = "," /\ st.stack # <<>> ->
                [st EXCEPT !.stack =
                                IF Top(st.stack).type = "array"
                                THEN SetTop(st.stack,
                                            [Top(st.stack) EXCEPT !.index = @ + 1])
                                ELSE st.stack,
                           !.currentKey = ""]
           [] OTHER -> st

RECURSIVE PathLoop(_, _, _, _)
\* the loop from character i (counted from 1) up to the last one
PathLoop(st, jsonString, i, last) ==
    IF i > last \/ st.escaped \notin BOOLEAN THEN st
    ELSE PathLoop(PathStep(st, At(jsonString, i)), jsonString, i + 1, last)

RECURSIVE PathOf(_, _)
\* the segments of the frames from frame n on
PathOf(stack, n) ==
    IF n > Len(stack) THEN ""
    ELSE (IF stack[n].type = "object"
          THEN (IF stack[n].key # "" THEN "." \o stack[n].key ELSE "")
          ELSE "[" \o NumToString(stack[n].index) \o "]")
            \o PathOf(stack, n + 1)

getJsonPathAtPosition(jsonString, position) ==
    "$" \o PathOf(PathLoop(PathScan, jsonString, 1,
                           Min(position, Len(jsonString))).stack, 1)

(***************************************************************************)
(* escapeString and unescapeString, src/lib/json-utils.ts:397-447          *)
(***************************************************************************)
\* an escape that leaves the string as it is
escapeString_AsItIs(str) == Success(str)

escapeString(str) == Success(SubSeq(Quote(str), 2, Len(Quote(str)) - 1))

\* the replacements of the lenient approach, in the order of the code
LenientUnescape(str) ==
    ReplaceAll(ReplaceAll(ReplaceAll(ReplaceAll(ReplaceAll(ReplaceAll(str,
        BS \o "n", NL), BS \o "r", CR), BS \o "t", TAB), BS \o DQ, DQ),
        BS \o BS, BS), BS \o SQ, SQ)

UnescapeParsed(str, parsed) ==
    IF parsed.ok THEN Success(parsed.v.s) ELSE Success(LenientUnescape(str))

unescapeString(str) == UnescapeParsed(str, JsonParse(DQ \o str \o DQ))

(***************************************************************************)
(* validateJson, src/lib/json-utils.ts:593-611; the position the code      *)
(* reads out of the parser's message is left out                           *)
(***************************************************************************)
ValidateParsed(parsed) ==
    IF parsed.ok THEN [valid |-> TRUE, error |-> <<>>]
    ELSE [valid |-> FALSE, error |-> <<JsonErrorMessage>>]

validateJson(jsonString) == ValidateParsed(JsonParse(jsonString))


(***************************************************************************)
(* jsonToCsv, src/lib/json-utils.ts:616-640, with the json2csv Parser of   *)
(* default options: the fields are the keys of the rows in the order met,  *)
(* the header and every string are quoted, a row that is falsy or has no   *)
(* cell is left out                                                        *)
(***************************************************************************)
RECURSIVE Split(_, _)
\* s.split(sep)
Split(s, sep) ==
    IF IndexOf(s, sep) = 0 THEN <<s>>
    ELSE <<Before(s, IndexOf(s, sep))>> \o Split(From(s, IndexOf(s, sep) + Len(sep)), sep)

RECURSIVE Join(_, _)
\* parts.join(sep)
Join(parts, sep) ==
    IF parts = <<>> THEN ""
    ELSE IF Len(parts) = 1 THEN parts[1]
    ELSE parts[1] \o sep \o Join(Tail(parts), sep)

\* Object.keys(row) of a row that is not null
RowKeys(row) ==
    CASE row.t = "obj" -> Keys(row)
      [] row.t = "arr" -> [i \in 1..Len(row.a) |-> NumToString(i - 1)]
      [] row.t = "str" -> [i \in 1..Len(row.s) |-> NumToString(i - 1)]
      [] OTHER -> <<>>

\* the value of the field in the row, Undefined when it has none
RowGet(row, field) ==
    CASE row.t = "obj" /\ HasKey(row.m, field) -> Get(row, field)
      [] row.t = "arr" /\ \E i \in 1..Len(row.a) : NumToString(i - 1) = field ->
            row.a[CHOOSE i \in 1..Len(row.a) : NumToString(i - 1) = field]
      [] row.t = "str" /\ \E i \in 1..Len(row.s) : NumToString(i - 1) = field ->
            Str(At(row.s, CHOOSE i \in 1..Len(row.s) : NumToString(i - 1) = field))
      [] OTHER -> Undefined

RECURSIVE AddFields(_, _, _)
AddFields(fields, keys, n) ==
    IF n > Len(keys) THEN fields
    ELSE AddFields(IF \E i \in 1..Len(fields) : fields[i] = keys[n]
                   THEN fields ELSE Append(fields, keys[n]),
                   keys, n + 1)

RECURSIVE CsvFields(_, _, _)
\* the keys of all the rows, each once, in the order met
CsvFields(rows, n, fields) ==
    IF n > Len(rows) THEN fields
    ELSE CsvFields(rows, n + 1, AddFields(fields, RowKeys(rows[n]), 1))

CsvQuote(s) == DQ \o ReplaceAll(s, DQ, DQ \o DQ) \o DQ

\* a cell; <<>> for a missing value
ProcessValue(value) ==
    CASE value.t \in {"null", "undefined"} -> <<>>
      [] value.t = "bool" -> <<IF value.b THEN "true" ELSE "false">>
      [] value.t = "num" -> <<NumToString(value.n)>>
      [] value.t = "str" -> <<CsvQuote(value.s)>>
      [] OTHER -> <<CsvQuote(JsonStringify(value, 0))>>

CellText(cell) == IF cell = <<>> THEN "" ELSE cell[1]

\* !row
Falsy(row) ==
    \/ row.t \in {"null", "undefined"}
    \/ row = Bool(FALSE) \/ row = Num(0) \/ row = Str("")

ProcessCells(row, fields) ==
    [i \in 1..Len(fields) |-> ProcessValue(RowGet(row, fields[i]))]

\* the line of a row; <<>> for a row that is left out
ProcessRow(row, fields) ==
    IF Falsy(row) \/ \A i \in 1..Len(fields) : ProcessCells(row, fields)[i] = <<>>
    THEN <<>>
    ELSE <<Join([i \in 1..Len(fields) |-> CellText(ProcessCells(row, fields)[i])], ",")>>

RECURSIVE ProcessData(_, _, _)
ProcessData(rows, n, fields) ==
    IF n > Len(rows) THEN <<>>
    ELSE ProcessRow(rows[n], fields) \o ProcessData(rows, n + 1, fields)

CsvHeader(fields) == Join([i \in 1..Len(fields) |-> CsvQuote(fields[i])], ",")

CsvText(header, lines) ==
    header \o (IF header # "" /\ lines # "" THEN NL ELSE "") \o lines

CsvOfFields(rows, fields) ==
    CsvText(CsvHeader(fields), Join(ProcessData(rows, 1, fields), NL))

\* parser.parse(arrayData) of an array that is not empty; data: the value
\* the text was parsed to
ParserParse(data, rows) ==
    IF data.t = "null"
    THEN Thrown("Data should not be empty or the \"fields\" option should be included")
    ELSE IF rows[1].t \notin {"obj", "arr", "null"}
    THEN Thrown("Data items should be objects or the \"fields\" option should be included")
    ELSE IF \E i \in 1..Len(rows) : rows[i].t = "null"
    THEN Thrown("Cannot convert undefined or null to object")
    ELSE [csv |-> CsvOfFields(rows, CsvFields(rows, 1, <<>>))]

JsonToCsvResult(csv) ==
    IF IsThrown(csv) THEN Failure(csv.message) ELSE Success(csv.csv)

JsonToCsvOf(data, arrayData) ==
    IF arrayData = <<>> THEN Failure("JSON array is empty")
    ELSE JsonToCsvResult(ParserParse(data, arrayData))

JsonToCsvParsed(parsed) ==
    IF ~parsed.ok THEN Failure(JsonErrorMessage)
    ELSE JsonToCsvOf(parsed.v, IF parsed.v.t = "arr" THEN parsed.v.a ELSE <<parsed.v>>)

jsonToCsv(jsonString) == JsonToCsvParsed(JsonParse(jsonString))

(***************************************************************************)
(* csvToJson, src/lib/json-utils.ts:714-760; hasWindow: the code runs in a *)
(* browser                                                                 *)
(***************************************************************************)
\* v.trim().replace(/^"|"$/g, '')
CsvCell(v) ==
    SubSeq(Trim(v),
           IF StartsWithAt(Trim(v), 1, DQ) THEN 2 ELSE 1,
           IF Trim(v) # "" /\ At(Trim(v), Len(Trim(v))) = DQ
           THEN Len(Trim(v)) - 1 ELSE Len(Trim(v)))

CsvCells(line) == [i \in 1..Len(Split(line, ",")) |-> CsvCell(Split(line, ",")[i])]

\* values[index] || ''
CellOr(values, index) == IF index <= Len(values) THEN values[index] ELSE ""

CsvValue(value) ==
    IF value \in {"true", "false"} THEN Bool(value = "true")
    ELSE IF IsNumeric(value) /\ value # "" THEN NumberValue(value)
    ELSE Str(value)

RECURSIVE CsvRowObject(_, _, _, _)
\* obj after the headers from the n-th on are assigned
CsvRowObject(headers, values, n, members) ==
    IF n > Len(headers) THEN Obj(members)
    ELSE CsvRowObject(headers, values, n + 1,
                      ObjSet(members, headers[n], CsvValue(CellOr(values, n))))

CsvRows(lines) ==
    [i \in 1..(Len(lines) - 1) |->
        CsvRowObject(CsvCells(lines[1]), CsvCells(lines[i + 1]), 1, <<>>)]

CsvToJsonLines(lines) ==
    IF Len(lines) < 2 THEN Failure("CSV data format is incorrect")
    ELSE Success(JsonStringify(Arr(CsvRows(lines)), 4))

csvToJson(csvString, hasWindow) ==
    IF ~hasWindow THEN Failure("This feature is only available on the client side")
    ELSE CsvToJsonLines(Split(Trim(csvString), NL))


(***************************************************************************)
(* extractFromCurl, src/lib/json-utils.ts:80-154; the headers it returns   *)
(* are left out                                                            *)
(***************************************************************************)
\* s.toLowerCase().startsWith(word), word in lower case and WORD the same in
\* upper case
StartsWithIgnoringCase(s, word, WORD) ==
    /\ Len(s) >= Len(word)
    /\ \A i \in 1..Len(word) : At(s, i) \in {At(word, i), At(WORD, i)}

\* the ends of (?:-d|--data(?:-raw|-binary)?)\s+ matched at i: where the
\* white space after the flag stops; {} without a match
DataFlagEnds(s, i) ==
    {SkipSet(s, i + Len(f), JsWs) :
        f \in {f \in {"-d", "--data", "--data-raw", "--data-binary"} :
                 /\ StartsWithAt(s, i, f)
                 /\ At(s, i + Len(f)) \in JsWs}}

\* the first quote after position j, 0 when there is none
NextQuote(s, j) ==
    IF \E k \in (j + 1)..Len(s) : At(s, k) \in {SQ, DQ}
    THEN CHOOSE k \in (j + 1)..Len(s) :
            /\ At(s, k) \in {SQ, DQ}
            /\ \A m \in (j + 1)..(k - 1) : At(s, m) \notin {SQ, DQ}
    ELSE 0

\* ['"]([\s\S]+?)['"] matched at j: the group, <<>> without a match
QuotedData(s, j) ==
    IF At(s, j) \in {SQ, DQ} /\ NextQuote(s, j + 1) > 0
    THEN <<SubSeq(s, j + 1, NextQuote(s, j + 1) - 1)>>
    ELSE <<>>

\* ([^\s]+) matched at j: the group, <<>> without a match
BareData(s, j) ==
    IF j <= Len(s)
    THEN <<SubSeq(s, j, (CHOOSE k \in j..Len(s) :
                            /\ \A m \in j..k : At(s, m) \notin JsWs
                            /\ (k = Len(s) \/ At(s, k + 1) \in JsWs)))>>
    ELSE <<>>

\* the groups of the matches of the first pattern that start at i
QuotedDataAt(s, i) == UNION {{QuotedData(s, j)} : j \in DataFlagEnds(s, i)} \ {<<>>}
BareDataAt(s, i) == UNION {{BareData(s, j)} : j \in DataFlagEnds(s, i)} \ {<<>>}

\* trimmed.match(first pattern) || trimmed.match(second pattern): the group
\* of the leftmost match, <<>> when neither pattern matches
DataMatch(s) ==
    IF \E i \in 1..Len(s) : QuotedDataAt(s, i) # {}
    THEN CHOOSE d \in QuotedDataAt(s, CHOOSE i \in 1..Len(s) :
                        /\ QuotedDataAt(s, i) # {}
                        /\ \A k \in 1..(i - 1) : QuotedDataAt(s, k) = {}) : TRUE
    ELSE IF \E i \in 1..Len(s) : BareDataAt(s, i) # {}
    THEN CHOOSE d \in BareDataAt(s, CHOOSE i \in 1..Len(s) :
                        /\ BareDataAt(s, i) # {}
                        /\ \A k \in 1..(i - 1) : BareDataAt(s, k) = {}) : TRUE
    ELSE <<>>

\* word matched at position i of s when case is ignored (the i flag), word
\* in lower case and WORD the same in upper case
MatchesIgnoringCaseAt(s, i, word, WORD) ==
    /\ i + Len(word) - 1 <= Len(s)
    /\ \A k \in 1..Len(word) : At(s, i + k - 1) \in {At(word, k), At(WORD, k)}

\* \s+ matched at q before something that starts with no white space: the
\* position after the white space, 0 without a match
AfterWs(s, q) == IF At(s, q) \in JsWs THEN SkipSet(s, q, JsWs) ELSE 0

\* the position after a run of characters of the set that starts at q and is
\* not empty, 0 if it is empty
AfterRun(s, q, set) == IF At(s, q) \in set THEN SkipSet(s, q, set) ELSE 0

\* (?:-[A-Za-z]+|--[a-z-]+) matched at p with the i flag, before \s+: the
\* position after the flag, 0 without a match
UrlFlagEnd(s, p) ==
    IF At(s, p) # "-" THEN 0
    ELSE IF At(s, p + 1) = "-"
    THEN AfterRun(s, p + 2, LowerLetters \cup UpperLetters \cup {"-"})
    ELSE AfterRun(s, p + 1, LowerLetters \cup UpperLetters)

\* '[^']*' or "[^"]*" matched at q: the position after the closing quote
UrlQuotedEnd(s, q) ==
    IF At(s, q) \in {SQ, DQ} /\ At(s, SkipSet(s, q + 1, CharsBut(s, {At(s, q)}))) = At(s, q)
    THEN SkipSet(s, q + 1, CharsBut(s, {At(s, q)})) + 1
    ELSE 0

\* (?:'[^']*'|"[^"]*"|[^\s]+)\s+ matched at q: the positions after it
UrlValueEnds(s, q) ==
    IF q = 0 THEN {}
    ELSE {AfterWs(s, e) : e \in {UrlQuotedEnd(s, q), AfterRun(s, q, CharsBut(s, JsWs))} \ {0}}
            \ {0}

\* one option and its value matched at p: the positions after them
UrlOptionEnds(s, p) ==
    IF UrlFlagEnd(s, p) = 0 THEN {}
    ELSE UrlValueEnds(s, AfterWs(s, UrlFlagEnd(s, p)))

RECURSIVE UrlOptionsEnds(_, _)
\* the positions after any number of options, from the positions of the set
UrlOptionsEnds(s, reached) ==
    IF UNION {UrlOptionEnds(s, p) : p \in reached} \subseteq reached THEN reached
    ELSE UrlOptionsEnds(s, reached \cup UNION {UrlOptionEnds(s, p) : p \in reached})

\* the scheme matched at u and [^\s'"]+ from position v: the group, <<>> if
\* no character of the run is there
UrlRun(s, u, v) ==
    IF AfterRun(s, v, CharsBut(s, JsWs \cup {SQ, DQ})) = 0 THEN <<>>
    ELSE <<SubSeq(s, u, AfterRun(s, v, CharsBut(s, JsWs \cup {SQ, DQ})) - 1)>>

\* (https?:\/\/[^\s'"]+) matched at u, whatever the case of the scheme if
\* ignoreCase: the group, <<>> without a match
UrlGroupAt(s, u, ignoreCase) ==
    IF \/ StartsWithAt(s, u, "https://")
       \/ ignoreCase /\ MatchesIgnoringCaseAt(s, u, "https://", "HTTPS://")
    THEN UrlRun(s, u, u + 8)
    ELSE IF \/ StartsWithAt(s, u, "http://")
            \/ ignoreCase /\ MatchesIgnoringCaseAt(s, u, "http://", "HTTP://")
    THEN UrlRun(s, u, u + 7)
    ELSE <<>>

\* ['"]?(https?:\/\/[^\s'"]+) matched at p
UrlAt(s, p, ignoreCase) ==
    IF At(s, p) \in {SQ, DQ} THEN UrlGroupAt(s, p + 1, ignoreCase)
    ELSE UrlGroupAt(s, p, ignoreCase)

\* the groups of the matches of the first pattern that start at i: curl,
\* white space, options, and the url
UrlsAfterCurl(s, i) ==
    IF MatchesIgnoringCaseAt(s, i, "curl", "CURL") /\ AfterWs(s, i + 4) > 0
    THEN {UrlAt(s, p, TRUE) : p \in UrlOptionsEnds(s, {AfterWs(s, i + 4)})} \ {<<>>}
    ELSE {}

\* the group of the match the engine finds among those that start at one
\* position; the model holds no text where the options can be read in two
\* ways that lead to different urls
OnlyUrl(urls) ==
    CASE Cardinality(urls) = 1 -> CHOOSE u \in urls : TRUE

\* the group of the leftmost match of the first pattern
FirstCurlUrl(s) ==
    OnlyUrl(UrlsAfterCurl(s, FirstWhere(1, Len(s), LAMBDA i : UrlsAfterCurl(s, i) # {})))

\* the group of the leftmost match of the second pattern
FirstPlainUrl(s) ==
    UrlAt(s, FirstWhere(1, Len(s), LAMBDA i : UrlAt(s, i, FALSE) # <<>>), FALSE)

\* urlMatch ? urlMatch[1] : undefined, <<>> standing for undefined
CurlUrl(s) ==
    IF \E i \in 1..Len(s) : UrlsAfterCurl(s, i) # {} THEN FirstCurlUrl(s)
    ELSE IF \E i \in 1..Len(s) : UrlAt(s, i, FALSE) # <<>> THEN FirstPlainUrl(s)
    ELSE <<>>

\* the record returned with the url beside the envelope
WithUrl(r, url) ==
    [success |-> r.success, result |-> r.result, error |-> r.error, url |-> url]

\* the text is not JSON: the repaired text, or else the text as it is
FixedOrRaw(data, fixResult) ==
    IF fixResult.success THEN Success(fixResult.result[1]) ELSE Success(data)

\* the text parsed, or else repaired, or else as it is
ParsedOrFixedOrRaw(data, parsed) ==
    IF parsed.ok THEN Success(JsonStringify(parsed.v, 2))
    ELSE FixedOrRaw(data, tryFixJson(data))

CurlData(dataMatch) ==
    IF dataMatch = <<>> THEN Failure("No data/body found in cURL command")
    ELSE ParsedOrFixedOrRaw(dataMatch[1], JsonParse(dataMatch[1]))

CurlTrimmed(trimmed) ==
    IF ~StartsWithIgnoringCase(trimmed, "curl", "CURL")
    THEN WithUrl(Failure("Not a valid cURL command"), <<>>)
    ELSE WithUrl(CurlData(DataMatch(trimmed)), CurlUrl(trimmed))

extractFromCurl(curlString) == CurlTrimmed(Trim(curlString))

(***************************************************************************)
(* decodeBase64Json, src/lib/json-utils.ts:159-206                         *)
(***************************************************************************)
Base64Alphabet ==
    "ABCDEFGHIJKLMNOPQRSTUVWXYZabcdefghijklmnopqrstuvwxyz0123456789+/"

\* the characters of codes 32 to 95, and of codes 97 to 126, in the order of
\* their codes
AsciiUpper ==
    " !" \o DQ \o "#$%&'()*+,-./0123456789:;<=>?@ABCDEFGHIJKLMNOPQRSTUVWXYZ["
        \o BS \o "]^_"
AsciiLower == "abcdefghijklmnopqrstuvwxyz{|}~"

\* the codes of the modelled characters
ModelledCodes == (32..95) \cup (97..126) \cup {9, 10, 13}

\* String.fromCharCode(code)
CharOfCode(code) ==
    CASE code >= 32 /\ code <= 95 -> At(AsciiUpper, code - 31)
      [] code >= 97 /\ code <= 126 -> At(AsciiLower, code - 96)
      [] code = 9 -> TAB
      [] code = 10 -> NL
      [] code = 13 -> CR

IsBase64Char(c) == c # "" /\ Includes(Base64Alphabet, c)
Base64Value(c) == IndexOf(Base64Alphabet, c) - 1

RECURSIVE RemoveWhitespace(_)
\* s.replace(/\s/g, '')
RemoveWhitespace(s) ==
    IF Len(s) <= 1 THEN (IF s \in JsWs THEN "" ELSE s)
    ELSE RemoveWhitespace(SubSeq(s, 1, Len(s) \div 2))
            \o RemoveWhitespace(SubSeq(s, Len(s) \div 2 + 1, Len(s)))

\* the number of "=" s ends with
TrailingEquals(s) ==
    Len(s) - (CHOOSE j \in 0..Len(s) :
                /\ \A k \in (j + 1)..Len(s) : At(s, k) = "="
                /\ (j = 0 \/ At(s, j) # "="))

\* /^[A-Za-z0-9+/]{least,}=*$/.test(s)
IsBase64Like(s, least) ==
    /\ Len(s) - TrailingEquals(s) >= least
    /\ \A i \in 1..(Len(s) - TrailingEquals(s)) : IsBase64Char(At(s, i))

RECURSIVE DecodeGroups(_)
\* the bytes that the Base64 characters of s hold
DecodeGroups(s) ==
    IF Len(s) < 2 THEN <<>>
    ELSE IF Len(s) = 2
    THEN <<Base64Value(At(s, 1)) * 4 + Base64Value(At(s, 2)) \div 16>>
    ELSE IF Len(s) = 3
    THEN <<Base64Value(At(s, 1)) * 4 + Base64Value(At(s, 2)) \div 16,
           (Base64Value(At(s, 2)) % 16) * 16 + Base64Value(At(s, 3)) \div 4>>
    ELSE <<Base64Value(At(s, 1)) * 4 + Base64Value(At(s, 2)) \div 16,
           (Base64Value(At(s, 2)) % 16) * 16 + Base64Value(At(s, 3)) \div 4,
           (Base64Value(At(s, 3)) % 4) * 64 + Base64Value(At(s, 4))>>
            \o DecodeGroups(From(s, 5))

RECURSIVE FromCharCodes(_)
\* the string of the characters of the codes
FromCharCodes(codes) ==
    IF codes = <<>> THEN ""
    ELSE CharOfCode(Head(codes)) \o FromCharCodes(Tail(codes))

AtobErrorMessage == "The string to be decoded is not correctly encoded."

\* atob of data without its white space and, when its length is a multiple
\* of four, without its one or two "=" at the end
AtobStripped(data) ==
    IF Len(data) % 4 = 1 \/ \E i \in 1..Len(data) : ~IsBase64Char(At(data, i))
    THEN Thrown(AtobErrorMessage)
    ELSE [decoded |-> FromCharCodes(DecodeGroups(data))]

\* data without the one or two "=" at its end, when its length is a
\* multiple of four
WithoutPadding(data) ==
    IF Len(data) % 4 = 0 /\ TrailingEquals(data) >= 1
    THEN Before(data, Len(data) - Min(TrailingEquals(data), 2) + 1)
    ELSE data

AtobData(data) == AtobStripped(WithoutPadding(data))

Atob(s) == AtobData(RemoveWhitespace(s))

Base64Decoded(decoded) ==
    IF IsThrown(decoded) THEN Failure(decoded.message)
    ELSE ParsedOrFixedOrRaw(decoded.decoded, JsonParse(decoded.decoded))

Base64Cleaned(cleaned) ==
    IF ~IsBase64Like(RemoveWhitespace(cleaned), 1)
    THEN Failure("Not a valid Base64 string")
    ELSE Base64Decoded(Atob(cleaned))

\* cleaned.split(',').pop() || cleaned
AfterLastComma(cleaned, parts) ==
    IF parts[Len(parts)] # "" THEN parts[Len(parts)] ELSE cleaned

\* the text without a data URI prefix
Base64Payload(cleaned) ==
    IF Includes(cleaned, ",") THEN AfterLastComma(cleaned, Split(cleaned, ","))
    ELSE cleaned

Base64Trimmed(cleaned) == Base64Cleaned(Base64Payload(cleaned))

decodeBase64Json(base64String) == Base64Trimmed(Trim(base64String))


(***************************************************************************)
(* smartExtract, src/lib/json-utils.ts:215-278                             *)
(***************************************************************************)
HexDigits == "0123456789ABCDEF"
HexDigitsLower == "0123456789abcdef"
IsHex(c) == c # "" /\ (Includes(HexDigits, c) \/ Includes(HexDigitsLower, c))
HexValue(c) ==
    IF Includes(HexDigits, c) THEN IndexOf(HexDigits, c) - 1
    ELSE IndexOf(HexDigitsLower, c) - 1

UriErrorMessage == "URI malformed"

RECURSIVE DecodeUriFrom(_, _, _)
\* decodeURIComponent from character i on, for escapes of one byte; decoded:
\* the text so far
DecodeUriFrom(s, i, decoded) ==
    IF i > Len(s) THEN [decoded |-> decoded]
    ELSE IF At(s, i) # "%" THEN DecodeUriFrom(s, i + 1, decoded \o At(s, i))
    ELSE CASE ~(IsHex(At(s, i + 1)) /\ IsHex(At(s, i + 2))) -> Thrown(UriErrorMessage)
           [] IsHex(At(s, i + 1)) /\ IsHex(At(s, i + 2)) /\ HexValue(At(s, i + 1)) < 8 ->
                DecodeUriFrom(s, i + 3,
                    decoded \o CharOfCode(HexValue(At(s, i + 1)) * 16 + HexValue(At(s, i + 2))))

DecodeURIComponent(s) == DecodeUriFrom(s, 1, "")

Extracted(result, detectedType) ==
    [success |-> TRUE, result |-> result, error |-> <<>>, detectedType |-> <<detectedType>>]

NotExtracted ==
    [success |-> FALSE, result |-> <<>>, error |-> <<"Could not detect or parse content">>,
     detectedType |-> <<>>]

\* a repair that succeeded is what the step returns
ExtractFixed(fixResult, detectedType) ==
    IF fixResult.success THEN Extracted(fixResult.result, detectedType)
    ELSE NotExtracted

\* an extractor that returns the text itself when the repair fails
ExtractDirect_Verbatim(trimmed, parsed) ==
    IF parsed.ok THEN Extracted(<<JsonStringify(parsed.v, 2)>>, "JSON")
    ELSE IF tryFixJson(trimmed).success
    THEN Extracted(tryFixJson(trimmed).result, "JSON (fixed)")
    ELSE Extracted(<<trimmed>>, "JSON (fixed)")

\* 5. the whole text parsed, 6. or repaired; nothing after it
ExtractDirect(trimmed, parsed) ==
    IF parsed.ok THEN Extracted(<<JsonStringify(parsed.v, 2)>>, "JSON")
    ELSE ExtractFixed(tryFixJson(trimmed), "JSON (fixed)")

LogLineParsed(potentialJson, parsed) ==
    IF parsed.ok THEN Extracted(<<JsonStringify(parsed.v, 2)>>, "Log line")
    ELSE ExtractFixed(tryFixJson(potentialJson), "Log line (fixed)")

\* the index, counted from 1, of the first "{" or "[" of s; 0 without one
FirstOpener(s) ==
    IF \E i \in 1..Len(s) : At(s, i) \in {"{", "["}
    THEN CHOOSE i \in 1..Len(s) :
            /\ At(s, i) \in {"{", "["}
            /\ \A k \in 1..(i - 1) : At(s, k) \notin {"{", "["}
    ELSE 0

LogLineFrom(potentialJson) ==
    LogLineParsed(potentialJson, JsonParse(potentialJson))

\* 4. the text from its first "{" or "[" on, when that is not its start
ExtractLogLine(trimmed) ==
    IF FirstOpener(trimmed) > 1
    THEN LogLineFrom(From(trimmed, FirstOpener(trimmed)))
    ELSE NotExtracted

UrlDecodedParsed(parsed) ==
    IF parsed.ok THEN Extracted(<<JsonStringify(parsed.v, 2)>>, "URL-encoded")
    ELSE NotExtracted

\* an extractor that does not catch what decodeURIComponent throws
UrlDecoded_NoCatch(decoded) ==
    IF IsThrown(decoded) THEN decoded
    ELSE UrlDecodedParsed(JsonParse(decoded.decoded))

UrlDecoded(decoded) ==
    IF IsThrown(decoded) THEN NotExtracted
    ELSE UrlDecodedParsed(JsonParse(decoded.decoded))

\* 3. the text with its percent escapes decoded
ExtractUrlEncoded(trimmed) ==
    IF Includes(trimmed, "%7B") \/ Includes(trimmed, "%5B")
    THEN UrlDecoded(DecodeURIComponent(trimmed))
    ELSE NotExtracted

Base64Extracted(base64Result) ==
    IF base64Result.success THEN Extracted(base64Result.result, "Base64")
    ELSE NotExtracted

\* 2. the text decoded as Base64
ExtractBase64(trimmed) ==
    IF IsBase64Like(RemoveWhitespace(trimmed), 20)
    THEN Base64Extracted(decodeBase64Json(trimmed))
    ELSE NotExtracted

CurlExtracted(curlResult) ==
    IF curlResult.success /\ curlResult.result \notin {<<>>, <<"">>}
    THEN Extracted(curlResult.result, "cURL")
    ELSE NotExtracted

\* 1. the body of a cURL command
ExtractCurl(trimmed) ==
    IF StartsWithIgnoringCase(trimmed, "curl", "CURL")
    THEN CurlExtracted(extractFromCurl(trimmed))
    ELSE NotExtracted

\* what each step of the function comes to on the trimmed text, in the order
\* of the code; a step that comes to NotExtracted goes on to the next step
ExtractSteps(trimmed) ==
    <<ExtractCurl(trimmed), ExtractBase64(trimmed), ExtractUrlEncoded(trimmed),
      ExtractLogLine(trimmed), ExtractDirect(trimmed, JsonParse(trimmed))>>

\* the function returns at the first step that does not go on
FirstReturn(steps) ==
    IF \A i \in 1..Len(steps) : steps[i] = NotExtracted THEN NotExtracted
    ELSE steps[CHOOSE i \in 1..Len(steps) :
                  /\ steps[i] # NotExtracted
                  /\ \A k \in 1..(i - 1) : steps[k] = NotExtracted]

ExtractTrimmed(trimmed) == FirstReturn(ExtractSteps(trimmed))

smartExtract(content) == ExtractTrimmed(Trim(content))


(***************************************************************************)
(* The state machine: a caller and its calls                               *)
(***************************************************************************)
\* ret before any call
NoReturn == [none |-> TRUE]

\* the caller, holding no result, calls operation name on the current text,
\* with the further arguments more, and gets r back
CallWith(name, more, r) ==
    /\ op = "none"
    /\ op' = name
    /\ args' = more
    /\ ret' = r
    /\ UNCHANGED <<orig, text, via, calls>>

Call(name, r) == CallWith(name, <<>>, r)

\* what an operation that returns no record returns
Returned(value) == [value |-> value]

CallTryFixJson == Call("tryFixJson", tryFixJson(text))

CallFormatJson == Call("formatJson", formatJson(text))

CallCompressJson == Call("compressJson", compressJson(text))

CallFormatXml == Call("formatXml", formatXml(text))

CallJsonToXml == Call("jsonToXml", jsonToXml(text))

CallXmlToJson == Call("xmlToJson", xmlToJson(text))

CallValidateJson == Call("validateJson", validateJson(text))

CallJsonToCsv == Call("jsonToCsv", jsonToCsv(text))

CallCsvToJson ==
    \E hasWindow \in BOOLEAN :
        CallWith("csvToJson", <<hasWindow>>, csvToJson(text, hasWindow))

CallGetJsonStats == Call("getJsonStats", getJsonStats(text))

\* the greatest position a path is asked for
MaxPosition == 12

CallGetJsonPathAtPosition ==
    \E position \in -1..MaxPosition :
        CallWith("getJsonPathAtPosition", <<position>>,
                 Returned(getJsonPathAtPosition(text, position)))

CallEscapeString == Call("escapeString", escapeString(text))

CallUnescapeString == Call("unescapeString", unescapeString(text))

CallExtractFromCurl == Call("extractFromCurl", extractFromCurl(text))

\* the Base64 characters data decode to modelled characters, or atob throws
Base64DataModelled(data) ==
    \/ Len(data) % 4 = 1
    \/ \E i \in 1..Len(data) : ~IsBase64Char(At(data, i))
    \/ \A i \in 1..Len(DecodeGroups(data)) : DecodeGroups(data)[i] \in ModelledCodes

\* the text is not taken for Base64, or it is decoded to modelled characters
Base64Modelled(cleaned) ==
    \/ ~IsBase64Like(RemoveWhitespace(Base64Payload(cleaned)), 1)
    \/ Base64DataModelled(WithoutPadding(RemoveWhitespace(Base64Payload(cleaned))))

CallDecodeBase64Json ==
    /\ op = "none"
    /\ Base64Modelled(Trim(text))
    /\ Call("decodeBase64Json", decodeBase64Json(text))

CallSmartExtract ==
    /\ op = "none"
    /\ \/ ~IsBase64Like(RemoveWhitespace(Trim(text)), 20)
       \/ Base64Modelled(Trim(text))
    /\ Call("smartExtract", smartExtract(text))

\* the longest chain of results fed back as the next text
MaxChain == 1

\* the caller takes the result of the last call as the text of its next
\* call, as the workbench does when it shows an output and converts it again
Feed ==
    /\ Len(via) < MaxChain
    /\ "result" \in DOMAIN ret
    /\ ret.result # <<>>
    /\ text' = ret.result[1]
    /\ via' = Append(via, op)
    /\ op' = "none"
    /\ args' = <<>>
    /\ ret' = NoReturn
    /\ UNCHANGED <<orig, calls>>

Start(texts) ==
    /\ orig \in texts
    /\ text = orig
    /\ via = <<>>
    /\ op = "none"
    /\ args = <<>>
    /\ ret = NoReturn
    /\ calls = {}

(***************************************************************************)
(* The texts the caller starts from                                        *)
(***************************************************************************)
\* the sequences of n distinct keys
KeySeqs(keys, n) ==
    {ks \in [1..n -> keys] : \A i, j \in 1..n : ks[i] = ks[j] => i = j}

RECURSIVE ObjOf(_, _, _)
\* the members after the assignments obj[ks[i]] = items[i] for i = 1..n, in turn
ObjOf(ks, items, n) ==
    IF n = 0 THEN <<>>
    ELSE ObjSet(ObjOf(ks, items, n - 1), ks[n], items[n])

RECURSIVE ValuesOfSize(_, _, _)
RECURSIVE ItemsOfSize(_, _, _)

\* the values of exactly n nodes (scalars and containers) over scalars and keys
ValuesOfSize(n, scalars, keys) ==
    IF n = 1 THEN scalars \cup {Arr(<<>>), Obj(<<>>)}
    ELSE LET items == ItemsOfSize(n - 1, scalars, keys)
         IN  {Arr(t) : t \in items} \cup
             UNION {{Obj(ObjOf(ks, t, Len(t))) : ks \in KeySeqs(keys, Len(t))} : t \in items}

\* the non-empty sequences of values of k nodes in all (the empty one for k = 0)
ItemsOfSize(k, scalars, keys) ==
    IF k = 0 THEN {<<>>}
    ELSE UNION {{<<v>> \o t : v \in ValuesOfSize(j, scalars, keys),
                              t \in ItemsOfSize(k - j, scalars, keys)} : j \in 1..k}

\* the values of at most n nodes
ValuesUpTo(n, scalars, keys) == UNION {ValuesOfSize(j, scalars, keys) : j \in 1..n}

(***************************************************************************)
(* The texts of the repair checks: strict JSON, JSON cut short before its  *)
(* closing braces and brackets, and JavaScript-style object literals       *)
(***************************************************************************)
\* the most nodes (scalars and containers) a generated value has
MaxNodes == 3

RepairScalars == {Null, Num(1), Str("a"), Str("'b'"), Str("c\"d")}
RepairKeys == {"a", "k1"}
RepairValues == ValuesUpTo(MaxNodes, RepairScalars, RepairKeys)

\* the values written as JavaScript-style literals
LiteralScalars == {Null, Num(1), Str("a"), Str("c\"d")}
LiteralValues == ValuesUpTo(MaxNodes, LiteralScalars, RepairKeys)

\* the values printed by JSON.stringify, compactly and indented
ValidJsonTexts == {JsonStringify(v, ind) : v \in RepairValues, ind \in {0, 2}}

\* the number of closing braces and brackets s ends with
TrailingClosers(s) ==
    Len(s) - (CHOOSE j \in 0..Len(s) :
                /\ \A k \in (j + 1)..Len(s) : At(s, k) \in {"}", "]"}
                /\ (j = 0 \/ At(s, j) \notin {"}", "]"}))

\* s without some or all of the closers it ends with
Truncations(s) == {Before(s, Len(s) - k + 1) : k \in 1..TrailingClosers(s)}

ExampleTruncated == "{\"a\": [1,2"

\* strict JSON whose only defect is that containers are left open at its end
TruncatedTexts ==
    UNION {Truncations(JsonStringify(v, 0)) : v \in RepairValues}
        \cup {ExampleTruncated}

PlainChars == LowerLetters \cup UpperLetters \cup Digits \cup {SP, "_"}
IsPlain(s) == \A i \in 1..Len(s) : At(s, i) \in PlainChars
IsIdentifier(s) ==
    /\ At(s, 1) \in IdentStart
    /\ \A i \in 1..Len(s) : At(s, i) \in IdentChars

RECURSIVE IsPlainValue(_)
\* every string and key of x is made of letters, digits, spaces and "_" only
IsPlainValue(x) ==
    CASE x.t = "str" -> IsPlain(x.s)
      [] x.t = "arr" -> \A i \in 1..Len(x.a) : IsPlainValue(x.a[i])
      [] x.t = "obj" ->
            \A i \in 1..Len(x.m) : IsPlain(x.m[i].k) /\ IsPlainValue(x.m[i].v)
      [] OTHER -> TRUE

RECURSIVE SingleQuotedChars(_)
\* the characters of s as a JavaScript single-quoted literal holds them
SingleQuotedChars(s) ==
    IF s = "" THEN ""
    ELSE (IF At(s, 1) \in {SQ, BS} THEN BS \o At(s, 1) ELSE At(s, 1))
            \o SingleQuotedChars(From(s, 2))

\* a style of writing a value the JavaScript way: strings in single quotes,
\* identifier keys bare, a comma after the last entry of a container
LiteralStyles == [sq : BOOLEAN, bare : BOOLEAN, tc : BOOLEAN] \
                    {[sq |-> FALSE, bare |-> FALSE, tc |-> FALSE]}

LiteralString(s, st) ==
    IF st.sq THEN SQ \o SingleQuotedChars(s) \o SQ ELSE Quote(s)
LiteralKey(k, st) ==
    IF st.bare /\ IsIdentifier(k) THEN k ELSE LiteralString(k, st)

RECURSIVE LiteralAt(_, _)
RECURSIVE LiteralItems(_, _, _)
RECURSIVE LiteralMembers(_, _, _)

\* value x written in style st, as in {name: 'Bob', age: 30,}
LiteralAt(x, st) ==
    CASE x.t = "str" -> LiteralString(x.s, st)
      [] x.t = "arr" ->
            IF x.a = <<>> THEN "[]"
            ELSE "[" \o LiteralItems(x.a, 1, st) \o (IF st.tc THEN "," ELSE "") \o "]"
      [] x.t = "obj" ->
            IF x.m = <<>> THEN "{}"
            ELSE "{" \o LiteralMembers(x.m, 1, st) \o (IF st.tc THEN "," ELSE "") \o "}"
      [] OTHER -> JsonStringify(x, 0)

LiteralItems(items, n, st) ==
    IF n > Len(items) THEN ""
    ELSE (IF n > 1 THEN ", " ELSE "") \o LiteralAt(items[n], st)
            \o LiteralItems(items, n + 1, st)

LiteralMembers(members, n, st) ==
    IF n > Len(members) THEN ""
    ELSE (IF n > 1 THEN ", " ELSE "") \o LiteralKey(members[n].k, st) \o ": "
            \o LiteralAt(members[n].v, st) \o LiteralMembers(members, n + 1, st)

ExampleLiteral == "{name: 'Bob', age: 30,}"
ExampleLiteralValue ==
    Obj(<<[k |-> "name", v |-> Str("Bob")], [k |-> "age", v |-> Num(30)]>>)

\* each literal text that is not strict JSON, with the value it is meant to denote
LiteralTable ==
    {p \in {[text |-> LiteralAt(v, st), intended |-> v] :
                v \in LiteralValues, st \in LiteralStyles} : ~JsonParse(p.text).ok}
        \cup {[text |-> ExampleLiteral, intended |-> ExampleLiteralValue]}

LiteralTexts == {p.text : p \in LiteralTable}

RepairTexts == ValidJsonTexts \cup TruncatedTexts \cup LiteralTexts

InitRepair == Start(RepairTexts)
NextRepair == CallTryFixJson \/ CallFormatJson
SpecRepair == InitRepair /\ [][NextRepair]_vars

(***************************************************************************)
(* The texts of the XML round trip: strict JSON of arrays, objects and     *)
(* scalars, converted to XML and back                                      *)
(***************************************************************************)
\* the most nodes a value converted to XML has
MaxXmlNodes == 3

XmlScalars == {Null, Bool(TRUE), Num(1), Str("a"), Str("5"), Str(""), Str("a<b")}
XmlKeys == {"a", "item"}
XmlValues == ValuesUpTo(MaxXmlNodes, XmlScalars, XmlKeys)

\* objects whose single key is root already
RootKeyTexts ==
    {"{\"root\":1}", "{\"root\":null}", "{\"root\":{\"a\":1}}", "{\"root\":[1,2]}",
     "{\"root\":[]}"}

RoundTripTexts == {JsonStringify(v, 0) : v \in XmlValues} \cup RootKeyTexts

InitRoundTrip == Start(RoundTripTexts)
NextRoundTrip == CallJsonToXml \/ CallXmlToJson \/ Feed
SpecRoundTrip == InitRoundTrip /\ [][NextRoundTrip]_vars


(***************************************************************************)
(* The texts of the formatting checks: a document in each notation is      *)
(* formatted, and the formatted text is formatted again                    *)
(***************************************************************************)
\* the most nodes a formatted value has
MaxFormatNodes == 3

FormatScalars == {Null, Bool(TRUE), Num(1), Str("a"), Str("5"), Str("")}
FormatKeys == {"a", "b"}
FormatValues ==
    {v \in ValuesUpTo(MaxFormatNodes, FormatScalars, FormatKeys) : DumpModelled(v)}

FormatJsonTexts == {JsonStringify(v, ind) : v \in FormatValues, ind \in {0, 2}}

\* YAML as the writer prints it, and as written by hand with another indent
FormatYamlTexts ==
    {YamlDump(v) : v \in FormatValues}
        \cup {"a:\n  b: 1\nc: 'x'", "- 1\n- a", "a: yes\nb: ~", ""}

\* XML with nested, repeated, empty and mixed content, with attributes and
\* entities, and text that is not XML
FormatXmlTexts ==
    {"<a>x</a>", "<a><b>1</b><b>2</b></a>", "<a><b><c>x</c></b><d/></a>",
     "<a>x<b/></a>", "<a><b/>x</a>", "<a b=\"1\">x</a>", "<a>x &amp; y</a>",
     "<a b=\"x&amp;y\"/>", "<a/>", "<a>", "<a></b>", "x", "<a>x</a><b/>",
     " <a> x </a> "}

(***************************************************************************)
(* The texts of the checks of all the operations: documents in the three   *)
(* notations, whole and cut short, blank texts, and the texts the          *)
(* extractor is made for                                                   *)
(***************************************************************************)
\* the most nodes a document has
MaxDocNodes == 2

DocScalars == {Null, Bool(TRUE), Num(1), Str("a")}
DocKeys == {"a"}
DocValues == {v \in ValuesUpTo(MaxDocNodes, DocScalars, DocKeys) : DumpModelled(v)}

DocJsonTexts == {JsonStringify(v, ind) : v \in DocValues, ind \in {0, 2}}
DocYamlTexts == {YamlDump(v) : v \in DocValues} \cup {"a:\n  b: 1\nc: 'x'", "- 1\n- a"}
DocTruncatedTexts == UNION {Truncations(t) : t \in DocJsonTexts}
BlankTexts == {"", " ", NL}

DocXmlTexts ==
    {"<a>x</a>", "<a><b>1</b><b>2</b></a>", "<a>x<b/></a>", "<a b=\"1\">x</a>",
     "<a/>", "<a>", "<a></b>", "<a>x</a><b/>", "<root><item>1</item></root>",
     "<a><b>true</b><b>-5</b><c>false</c></a>", "<a>Infinity</a>",
     "<a><_text><b>1</b></_text></a>"}

\* a POST of a quoted body, as a shell takes it
CurlPost(body) ==
    "curl -X POST https://api.example.com -H \"Content-Type: application/json\" -d "
        \o SQ \o body \o SQ

\* strict JSON posted as a body
CurlBodies == {"{\"x\":1}", "{}", "[1,2]", "1", "\"a\"", "[\"a\"]"}

CurlTexts ==
    {CurlPost(body) : body \in CurlBodies} \cup
    {"curl http://x --data {\"a\":1}", "curl http://x --data-raw '[1,2'",
     "CURL http://x -d hello", "curl http://x", "curl"}

\* Base64 of {"x":1}, of {x:1,} behind a data URI prefix, of "hello, world!!"
\* and, in 20 characters, of "hello, world!!!", and Base64 characters that are
\* no Base64 text
Base64Texts ==
    {"eyJ4IjoxfQ==", "data:application/json;base64,e3g6MSx9",
     "data:application/json;base64,eyJ4IjoxLCJ5IjpbdHJ1ZSxudWxsXX0=",
     "eyJ4IjoxLCJ5IjpbdHJ1ZSxudWxsXX0=", "aGVsbG8sIHdvcmxkISE=",
     "eyJ4IjoxLCJ5IjpbdHJ1Z", "eyJ4IjoxfQ===", "aGVsbG8sIHdvcmxkISEh"}

UrlEncodedTexts ==
    {"%7B%22a%22%3A1%7D", "%5B1%2C2%5D", "%7B%2", "%7Bx", "a%5Bb", "%5b1%5d"}

LogTexts == {"INFO body={\"a\":1}", "x [1,2", "WARN {a: 1,}", "hello", "a{"}

CsvTexts == {"a,b\n1,x", "a,\"b\"\ntrue,\n2", "a"}

EscapeTexts == {"a\"b", "a\\nb", "a\\", "a\\x", "a\nb"}

\* an object with a number and an array of two numbers
StatsExample == "{\"a\":1,\"b\":[2,3]}"

DocTexts ==
    DocJsonTexts \cup DocYamlTexts \cup DocTruncatedTexts \cup BlankTexts
        \cup DocXmlTexts \cup CurlTexts \cup Base64Texts \cup UrlEncodedTexts
        \cup LogTexts \cup CsvTexts \cup EscapeTexts
        \cup {ExampleLiteral, StatsExample}

\* the texts the YAML reader and writer are modelled for, and the operations
\* whose results are such texts again
YamlReadableTexts ==
    FormatJsonTexts \cup FormatYamlTexts \cup DocJsonTexts \cup DocYamlTexts
        \cup DocTruncatedTexts \cup BlankTexts
YamlKeeping == {"formatJson", "compressJson", "formatYaml", "jsonToYaml", "yamlToJson"}
YamlReadable ==
    /\ orig \in YamlReadableTexts
    /\ \A i \in 1..Len(via) : via[i] \in YamlKeeping

CallFormatYaml == op = "none" /\ YamlReadable /\ Call("formatYaml", formatYaml(text))

InitFormat == Start(FormatJsonTexts \cup FormatYamlTexts \cup FormatXmlTexts)
NextFormat == CallFormatJson \/ CallFormatXml \/ CallFormatYaml \/ Feed
SpecFormat == InitFormat /\ [][NextFormat]_vars


CallJsonToYaml == op = "none" /\ YamlReadable /\ Call("jsonToYaml", jsonToYaml(text))

CallYamlToJson == op = "none" /\ YamlReadable /\ Call("yamlToJson", yamlToJson(text))

\* the detector does not load the text as YAML, or the text is one the YAML
\* reader is modelled for
DetectReadable(trimmed) ==
    \/ YamlReadable
    \/ StartsWithAt(trimmed, 1, "<") /\ Includes(trimmed, ">") /\ Includes(trimmed, "</")
    \/ ~(Includes(trimmed, ":") /\ (Includes(trimmed, NL) \/ Includes(trimmed, "  ")))

CallDetectFormat ==
    /\ op = "none"
    /\ DetectReadable(Trim(text))
    /\ Call("detectFormat", Returned(detectFormat(text)))

CallConvertFormat ==
    /\ op = "none"
    /\ \E fromType \in FormatTypes \cup {NoFormat}, toType \in FormatTypes :
            /\ (fromType # toType /\ "yaml" \in {fromType, toType}) =>
                    (YamlReadable /\ fromType # "xml")
            /\ CallWith("convertFormat", <<fromType, toType>>,
                        convertFormat(text, fromType, toType))

(***************************************************************************)
(* Calls one after another: the caller remembers one of its calls and goes *)
(* on to call any operation on any text.  Any two calls of a behaviour are *)
(* the remembered call and a later call of some behaviour.                 *)
(***************************************************************************)
\* a literal with single quotes, a bare key and a trailing comma, JSON cut
\* short, and a cURL command
ReentrantTexts == {ExampleLiteral, "{\"a\":1", CurlPost("{}")}

\* the last call with what it returned
LastCall == [op |-> op, args |-> args, text |-> text, ret |-> ret]

\* the caller is done with the result of its last call, remembers the call
\* if it remembers none yet, or does not, and takes a text for its next call
Again ==
    /\ op # "none"
    /\ \E remember \in BOOLEAN :
            /\ remember => calls = {}
            /\ calls' = IF remember THEN {LastCall} ELSE calls
    /\ \E next \in ReentrantTexts :
            /\ orig' = next
            /\ text' = next
    /\ via' = <<>>
    /\ op' = "none"
    /\ args' = <<>>
    /\ ret' = NoReturn

(***************************************************************************)
(* Every synchronous operation called on every text                        *)
(***************************************************************************)
Init == Start(DocTexts)

Next ==
    \/ CallTryFixJson
    \/ CallFormatJson
    \/ CallCompressJson
    \/ CallValidateJson
    \/ CallFormatXml
    \/ CallFormatYaml
    \/ CallJsonToCsv
    \/ CallCsvToJson
    \/ CallJsonToXml
    \/ CallXmlToJson
    \/ CallJsonToYaml
    \/ CallYamlToJson
    \/ CallDetectFormat
    \/ CallConvertFormat
    \/ CallExtractFromCurl
    \/ CallDecodeBase64Json
    \/ CallSmartExtract
    \/ CallGetJsonStats
    \/ CallGetJsonPathAtPosition
    \/ CallEscapeString
    \/ CallUnescapeString

Spec == Init /\ [][Next]_vars

(***************************************************************************)
(* The texts of the checks of the statistics and of the path at a          *)
(* position: strict JSON printed compactly, and text that is no JSON       *)
(***************************************************************************)
\* the most nodes a document that is inspected has
MaxInspectNodes == 4

InspectScalars == {Num(1)}
InspectKeys == {"a", "b"}
InspectValues == ValuesUpTo(MaxInspectNodes, InspectScalars, InspectKeys)

\* documents with strings that hold the characters of the structure, and
\* with the empty key
InspectStringTexts == {"{\"a\":\"x:,{\"}", "[\"[\",\"b\"]", "{\"\":[1,2]}", "\"a\""}

InspectTexts ==
    {JsonStringify(v, 0) : v \in InspectValues} \cup InspectStringTexts
        \cup {ExampleTruncated, "", "[1,]"}

InitInspect == Start(InspectTexts)
NextInspect == CallGetJsonStats \/ CallGetJsonPathAtPosition
SpecInspect == InitInspect /\ [][NextInspect]_vars

(***************************************************************************)
(* The texts of the escape checks: every short string over letters, the    *)
(* quotes, the backslash and the line break; a string is escaped and the   *)
(* result is unescaped                                                     *)
(***************************************************************************)
\* the most characters of a string that is escaped
MaxEscapeLen == 3

EscapeAlphabet == {"a", "n", DQ, SQ, BS, NL}

RECURSIVE StringsOfLen(_, _)
\* the strings of n characters of the alphabet
StringsOfLen(alphabet, n) ==
    IF n = 0 THEN {""}
    ELSE {c \o s : c \in alphabet, s \in StringsOfLen(alphabet, n - 1)}

EscapeStrings == UNION {StringsOfLen(EscapeAlphabet, n) : n \in 0..MaxEscapeLen}

InitEscape == Start(EscapeStrings)
NextEscape == CallEscapeString \/ CallUnescapeString \/ Feed
SpecEscape == InitEscape /\ [][NextEscape]_vars

InitReentrant == Start(ReentrantTexts)
NextReentrant == Next \/ Again
SpecReentrant == InitReentrant /\ [][NextReentrant]_vars


(***************************************************************************)
(* The claims                                                              *)
(***************************************************************************)
\* does the sequence hold the element
Has(seq, e) == \E i \in 1..Len(seq) : seq[i] = e

\* C7: repair does nothing to valid input: whenever tryFixJson is called on
\* text that is strict JSON, the fixes it returns are the empty list.
C7_RepairLeavesValidJsonAlone ==
    (op = "tryFixJson" /\ JsonParse(text).ok) => ret.fixes = <<>>

\* C8: repair agrees with format on valid input: whenever tryFixJson is
\* called on text that is strict JSON, it succeeds and its result is the
\* string formatJson returns for the same text.
C8_RepairAgreesWithFormat ==
    (op = "tryFixJson" /\ JsonParse(text).ok) =>
        (ret.success /\ ret.result = formatJson(text).result)

\* C9: bracket balancing repairs truncated nesting: on {"a": [1,2 tryFixJson
\* appends one ] and one }, records the fix for 1 missing closing bracket
\* and for 1 missing closing brace, and succeeds; and on any strict JSON cut
\* short before closing braces and brackets at its end it succeeds.
C9_BalancingRepairsTruncation ==
    (op = "tryFixJson" /\ text \in TruncatedTexts) =>
        /\ ret.success
        /\ text = ExampleTruncated =>
              /\ FixRewrites(text).fixed = text \o "]}"
              /\ Has(ret.fixes, FixBrackets(1))
              /\ Has(ret.fixes, FixBraces(1))

OrigValue == JsonParse(orig).v

\* the call just made is xmlToJson on the result of jsonToXml(orig)
BackFromXml == via = <<"jsonToXml">> /\ op = "xmlToJson"

RECURSIVE SameButCoerced(_, _)
\* equal values, a leaf scalar counting as equal to another scalar that
\* prints the same (5 and "5")
SameButCoerced(x, y) ==
    IF IsScalar(x) /\ IsScalar(y) THEN JsString(x) = JsString(y)
    ELSE IF x.t = "arr" /\ y.t = "arr"
    THEN /\ Len(x.a) = Len(y.a)
         /\ \A i \in 1..Len(x.a) : SameButCoerced(x.a[i], y.a[i])
    ELSE IF x.t = "obj" /\ y.t = "obj"
    THEN /\ Len(x.m) = Len(y.m)
         /\ \A i \in 1..Len(x.m) :
              /\ HasKey(y.m, x.m[i].k)
              /\ SameButCoerced(x.m[i].v, Get(y, x.m[i].k))
    ELSE FALSE

\* C4: JSON to XML to JSON is the identity on arrays: for a JSON array a,
\* xmlToJson of the result of jsonToXml(stringify(a)) succeeds and its result
\* parses to an array equal to a, up to number/string coercion of the leaves.
C4_ArrayRoundTrip ==
    (BackFromXml /\ OrigValue.t = "arr") =>
        /\ ret.success
        /\ JsonParse(ret.result[1]).ok
        /\ JsonParse(ret.result[1]).v.t = "arr"
        /\ SameButCoerced(JsonParse(ret.result[1]).v, OrigValue)

\* C5: XML to JSON inverts JSON to XML on scalar-rooted documents: for a JSON
\* text whose value is a scalar, jsonToXml gives a root element holding the
\* stringified scalar, and xmlToJson of that XML succeeds and returns the
\* same scalar.
C5_ScalarRoundTrip ==
    /\ (op = "jsonToXml" /\ via = <<>> /\ IsScalar(OrigValue)) =>
          /\ ret.success
          /\ ret.result = <<"<root>" \o WriteText(OrigValue) \o "</root>">>
    /\ (BackFromXml /\ IsScalar(OrigValue)) =>
          /\ ret.success
          /\ JsonParse(ret.result[1]) = [ok |-> TRUE, v |-> OrigValue]

\* C3: formatting is idempotent: whenever the text is the result of a
\* successful formatJson, formatXml or formatYaml and the same operation is
\* called on it, the call succeeds and returns the text unchanged
C3_FormatIdempotent ==
    \A f \in {"formatJson", "formatXml", "formatYaml"} :
        (via = <<f>> /\ op = f) => (ret.success /\ ret.result = <<text>>)

\* the operations that return the record {success, result, error}
EnvelopeOps ==
    {"formatJson", "formatXml", "formatYaml", "compressJson", "jsonToCsv",
     "jsonToXml", "xmlToJson", "jsonToYaml", "yamlToJson", "csvToJson",
     "convertFormat", "tryFixJson", "extractFromCurl", "decodeBase64Json",
     "smartExtract", "escapeString", "unescapeString"}

\* C1: the envelope invariant: whatever the text, the record an
\* envelope-returning operation returns has a result and no error when
\* success is true, and an error and no result when success is false
C1_EnvelopeInvariant ==
    op \in EnvelopeOps =>
        IF ret.success THEN ret.result # <<>> /\ ret.error = <<>>
        ELSE ret.error # <<>> /\ ret.result = <<>>

\* C2: no exception reaches the caller: whatever the text, every call of a
\* synchronous operation returns a value and throws nothing
C2_NoExceptionEscapes == op # "none" => ~IsThrown(ret)

\* smartExtract has returned its failure record for a text on which
\* decodeURIComponent threw
C2_Witness ==
    /\ op = "smartExtract"
    /\ Includes(text, "%7B")
    /\ IsThrown(DecodeURIComponent(Trim(text)))
    /\ ~IsThrown(ret)
    /\ ~ret.success

\* C6: the detector prefers JSON: whenever detectFormat is called on a text
\* that parses as strict JSON and loads as YAML, it returns 'json'
C6_JsonBeforeYaml ==
    (op = "detectFormat" /\ JsonParse(text).ok /\ ~YamlLoad(text).threw) =>
        ret.value = "json"

\* detectFormat has loaded a JSON text as YAML (the text has a colon and a
\* line break) and returned 'json'
C6_Witness ==
    /\ op = "detectFormat"
    /\ Includes(Trim(text), ":") /\ Includes(Trim(text), NL)
    /\ JsonParse(text).ok
    /\ ~YamlLoad(text).threw
    /\ ret.value = "json"



\* C11: for a cURL command whose data argument is a quoted strict-JSON body,
\* smartExtract succeeds with detectedType "cURL" and the body pretty-printed,
\* and extractFromCurl reports the url of the request
C11_CurlBodyExtracted ==
    \A body \in CurlBodies :
        text = CurlPost(body) =>
            /\ op = "smartExtract" =>
                    /\ ret.success
                    /\ ret.detectedType = <<"cURL">>
                    /\ ret.result = <<JsonStringify(JsonParse(body).v, 2)>>
            /\ op = "extractFromCurl" => ret.url = <<"https://api.example.com">>


\* the strategies of the extractor as they are described, each with the
\* condition under which it is tried: would it yield a result on the text
CurlYields(trimmed) ==
    StartsWithIgnoringCase(trimmed, "curl", "CURL") /\ extractFromCurl(trimmed).success

Base64Yields(trimmed) ==
    /\ IsBase64Like(RemoveWhitespace(Base64Payload(trimmed)), 20)
    /\ decodeBase64Json(trimmed).success

UrlEncodedYields(trimmed) ==
    /\ \E code \in {"%7B", "%7b", "%5B", "%5b"} : Includes(trimmed, code)
    /\ ~IsThrown(DecodeURIComponent(trimmed))
    /\ JsonParse(DecodeURIComponent(trimmed).decoded).ok

LogLineYields(trimmed) ==
    /\ FirstOpener(trimmed) > 1
    /\ \/ JsonParse(From(trimmed, FirstOpener(trimmed))).ok
       \/ tryFixJson(From(trimmed, FirstOpener(trimmed))).success

DirectYields(trimmed) == JsonParse(trimmed).ok \/ tryFixJson(trimmed).success

\* C12: smartExtract fails only if every one of its strategies fails on the
\* text: when any strategy would yield a result, it returns success
C12_FailsOnlyIfAllFail ==
    (/\ op = "smartExtract"
     /\ \/ CurlYields(Trim(text))
        \/ Base64Yields(Trim(text))
        \/ UrlEncodedYields(Trim(text))
        \/ LogLineYields(Trim(text))
        \/ DirectYields(Trim(text)))
        => ret.success


\* C13: convertFormat with the source notation equal to the target notation
\* returns success with the content itself, character for character
C13_SameNotationUnchanged ==
    (op = "convertFormat" /\ args[1] = args[2]) => ret = Success(text)

\* JSON to JSON of a text that is no JSON, and of JSON that is not in the
\* printed form, came back as it was
C13_Witness ==
    /\ op = "convertFormat"
    /\ args = <<"json", "json">>
    /\ \/ ~JsonParse(text).ok
       \/ JsonParse(text).ok /\ formatJson(text).result # <<text>>
    /\ ret = Success(text)

\* the text is well-formed in the notation the detector gives for it
WellFormedAs(content, type) ==
    CASE type = "xml" -> xmlToJson(content).success
      [] type = "yaml" -> yamlToJson(content).success /\ yamlToJson(content).result # <<>>
      [] OTHER -> FALSE

\* C14: convertFormat with a null source notation detects the notation of
\* the text: well-formed XML or YAML is parsed as such and converted
C14_NullSourceDetected ==
    (/\ op = "convertFormat"
     /\ args[1] = NoFormat
     /\ DetectReadable(Trim(text))
     /\ detectFormat(text) \in {"xml", "yaml"}
     /\ WellFormedAs(text, detectFormat(text)))
        => ret.success

\* the message of the stage of the conversion that fails, <<>> if none does:
\* the parse of the source, then the print of the target
PrintMessage(jsonResult, toType) ==
    CASE toType = "json" -> formatJson(jsonResult.result[1]).error
      [] toType = "xml" -> jsonToXml(jsonResult.result[1]).error
      [] toType = "yaml" -> jsonToYaml(jsonResult.result[1]).error

StageMessageOf(jsonResult, toType) ==
    IF ~jsonResult.success THEN jsonResult.error
    ELSE IF jsonResult.result = <<>> THEN <<>>
    ELSE PrintMessage(jsonResult, toType)

StageMessage(content, fromType, toType) ==
    CASE fromType \in {NoFormat, "json"} ->
            StageMessageOf(formatJson(content), toType)
      [] fromType = "xml" -> StageMessageOf(xmlToJson(content), toType)
      [] fromType = "yaml" -> StageMessageOf(yamlToJson(content), toType)

\* C15: when a stage of convertFormat fails, the error returned is the
\* message of that stage, whatever the source notation
C15_StageMessagePreserved ==
    (/\ op = "convertFormat"
     /\ args[1] # args[2]
     /\ StageMessage(text, args[1], args[2]) # <<>>)
        => (~ret.success /\ ret.error = StageMessage(text, args[1], args[2]))


\* C16, as stated: for {"a":1,"b":[2,3]} getJsonStats returns nodeCount 6
\* and depth 2
C16_StatsExampleSix ==
    (op = "getJsonStats" /\ text = StatsExample) =>
        (ret.nodeCount = 6 /\ ret.depth = 2)

\* C16, amended: every node visited counts once, the object, 1, the array, 2
\* and 3, so nodeCount is 5; depth is 2
C16_StatsExampleFive ==
    (op = "getJsonStats" /\ text = StatsExample) =>
        (ret.nodeCount = 5 /\ ret.depth = 2)

C16_Witness ==
    /\ op = "getJsonStats"
    /\ text = StatsExample
    /\ ret = [nodeCount |-> 5, depth |-> 2, size |-> 17]


TriggeredAtTurn5(turnText, fixes) ==
    fixes \o (IF TestComment(turnText) THEN <<FixComments>> ELSE <<>>)

TriggeredAtTurn4(turnText, fixes) ==
    TriggeredAtTurn5(
        FixStep4([fixed |-> turnText, fixes |-> <<>>]).fixed,
        fixes
        \o (IF CountChar(turnText, "{") > CountChar(turnText, "}")
            THEN <<FixBraces(CountChar(turnText, "{") - CountChar(turnText, "}"))>>
            ELSE <<>>)
        \o (IF CountChar(turnText, "[") > CountChar(turnText, "]")
            THEN <<FixBrackets(CountChar(turnText, "[") - CountChar(turnText, "]"))>>
            ELSE <<>>))

TriggeredAtTurn3(turnText, fixes) ==
    TriggeredAtTurn4(
        IF TestUnquotedKey(turnText) THEN QuoteUnquotedKeys(turnText, 1) ELSE turnText,
        fixes \o (IF TestUnquotedKey(turnText) THEN <<FixUnquotedKeys>> ELSE <<>>))

TriggeredAtTurn2(turnText, fixes) ==
    TriggeredAtTurn3(
        IF TestTrailingComma(turnText) THEN RemoveTrailingCommas(turnText, 1) ELSE turnText,
        fixes \o (IF TestTrailingComma(turnText) THEN <<FixTrailingCommas>> ELSE <<>>))

TriggeredAtTurn1(turnText) ==
    TriggeredAtTurn2(
        IF TestSingleQuote(turnText) THEN ReplaceSingleQuotes(turnText, 1) ELSE turnText,
        IF TestSingleQuote(turnText) THEN <<FixSingleQuotes>> ELSE <<>>)

\* the place of a description in the order of the rewrites
FixPlace(description, most) ==
    CASE description = FixSingleQuotes -> 1
      [] description = FixTrailingCommas -> 2
      [] description = FixUnquotedKeys -> 3
      [] \E n \in 1..most : description = FixBraces(n) -> 4
      [] \E n \in 1..most : description = FixBrackets(n) -> 5
      [] description = FixComments -> 6

\* C18: tryFixJson applies its rewrites in one order, each to the text the
\* one before it left: its fixes are the descriptions of exactly the rewrites
\* whose trigger matched the text at its turn, and they stand in the order
\* quotes, commas, keys, braces, brackets, comments, none of them twice
C18_FixesInTurnOrder ==
    op = "tryFixJson" =>
        /\ ret.fixes = TriggeredAtTurn1(text)
        /\ \A i, j \in 1..Len(ret.fixes) :
                i < j => FixPlace(ret.fixes[i], Len(text)) < FixPlace(ret.fixes[j], Len(text))

\* a repair where the first, the fourth and the fifth rewrite matched and the
\* second and third did not: the bracket is appended before the comment goes
C18_Witness ==
    /\ op = "tryFixJson"
    /\ ret.fixes = <<FixSingleQuotes, FixBrackets(1), FixComments>>


\* the name of the first strategy, in the order cURL, Base64, URL-encoded, log
\* line, direct parse, repair, that would yield a result on the text; <<>>
\* when none would
FirstYielding(trimmed) ==
    IF CurlYields(trimmed) THEN <<"cURL">>
    ELSE IF Base64Yields(trimmed) THEN <<"Base64">>
    ELSE IF UrlEncodedYields(trimmed) THEN <<"URL-encoded">>
    ELSE IF LogLineYields(trimmed)
         THEN IF JsonParse(From(trimmed, FirstOpener(trimmed))).ok
              THEN <<"Log line">> ELSE <<"Log line (fixed)">>
    ELSE IF JsonParse(trimmed).ok THEN <<"JSON">>
    ELSE IF tryFixJson(trimmed).success THEN <<"JSON (fixed)">>
    ELSE <<>>

\* C19: smartExtract returns the outcome of the first of its strategies, in
\* the order cURL, Base64, URL-encoded, log line, direct parse, repair, that
\* succeeds on the text, and its detectedType names that strategy
C19_FirstSuccessWins ==
    op = "smartExtract" =>
        /\ ret.detectedType = FirstYielding(Trim(text))
        /\ ret.success <=> FirstYielding(Trim(text)) # <<>>


\* the text is a data URI: a prefix up to a comma, and after it at least
\* least Base64 characters, with or without padding, that decode to JSON
DataUriOfJson(trimmed, least) ==
    /\ Len(trimmed) >= 5 /\ SubSeq(trimmed, 1, 5) = "data:"
    /\ Includes(trimmed, ",")
    /\ IsBase64Like(RemoveWhitespace(Base64Payload(trimmed)), least)
    /\ ~IsThrown(Atob(Base64Payload(trimmed)))
    /\ JsonParse(Atob(Base64Payload(trimmed)).decoded).ok

\* C20: smartExtract strips a data URI prefix before its Base64 test: a data
\* URI of at least 20 Base64 characters that encode JSON gives success with
\* detectedType Base64 and the decoded JSON printed; a text of fewer than 20
\* Base64 characters is not taken for Base64
C20_DataUriIsBase64 ==
    op = "smartExtract" =>
        /\ DataUriOfJson(Trim(text), 20) =>
                /\ ret.success
                /\ ret.detectedType = <<"Base64">>
                /\ ret.result =
                        <<JsonStringify(JsonParse(Atob(Base64Payload(Trim(text))).decoded).v, 2)>>
        /\ (/\ IsBase64Like(RemoveWhitespace(Trim(text)), 1)
            /\ ~IsBase64Like(RemoveWhitespace(Trim(text)), 20))
                => ret.detectedType # <<"Base64">>


\* the index, counted from 1, of the first "{" or "[" of s after its first
\* character; 0 without one
LaterOpener(s) ==
    IF FirstOpener(From(s, 2)) = 0 THEN 0 ELSE FirstOpener(From(s, 2)) + 1

\* what the log line strategy as it is described comes to on the text from
\* its opener on: the parsed text printed, or the repaired text
LogLineOutcome(potentialJson, parsed) ==
    IF parsed.ok THEN Extracted(<<JsonStringify(parsed.v, 2)>>, "Log line")
    ELSE ExtractFixed(tryFixJson(potentialJson), "Log line (fixed)")

LogLineOutcomeFrom(potentialJson) ==
    LogLineOutcome(potentialJson, JsonParse(potentialJson))

\* C21: when no earlier strategy succeeds, smartExtract takes the text from
\* the first "{" or "[" after position 0 on, parses it and on failure repairs
\* it, and a success is returned as Log line or Log line (fixed); also when
\* the trimmed text itself begins with "{" or "["
C21_LogLineFromLaterOpener ==
    (/\ op = "smartExtract"
     /\ ~CurlYields(Trim(text))
     /\ ~Base64Yields(Trim(text))
     /\ ~UrlEncodedYields(Trim(text))
     /\ LaterOpener(Trim(text)) > 0
     /\ LogLineOutcomeFrom(From(Trim(text), LaterOpener(Trim(text)))) # NotExtracted)
        => ret = LogLineOutcomeFrom(From(Trim(text), LaterOpener(Trim(text))))


\* the reference procedure of the detector, on the trimmed text
DetectReference(trimmed) ==
    IF trimmed = "" THEN NoFormat
    ELSE IF /\ At(trimmed, 1) = "<"
            /\ Includes(trimmed, ">")
            /\ Includes(trimmed, "</")
    THEN "xml"
    ELSE IF /\ Includes(trimmed, ":")
            /\ Includes(trimmed, NL) \/ Includes(trimmed, "  ")
            /\ ~YamlLoad(trimmed).threw
            /\ ~JsonParse(trimmed).ok
    THEN "yaml"
    ELSE IF JsonParse(trimmed).ok THEN "json"
    ELSE NoFormat

\* C22: detectFormat gives what the reference procedure gives: nothing for a
\* blank text, then xml for "<" at the start with ">" and "</", then yaml for
\* a text with ":" and a line break or two spaces that loads as YAML and is
\* no strict JSON, then json for strict JSON, and nothing otherwise
C22_DetectIsReference ==
    op = "detectFormat" => ret.value = DetectReference(Trim(text))

\* the detector was asked about a text that starts with "<" and holds ">"
\* but no closing tag, and gave no format for it
C22_Witness ==
    /\ op = "detectFormat"
    /\ At(Trim(text), 1) = "<"
    /\ Includes(Trim(text), ">")
    /\ ~Includes(Trim(text), "</")
    /\ ret.value = NoFormat


\* a numeral: an optional sign and decimal digits, white space around them
IsNumeral(s) ==
    /\ Trim(s) # ""
    /\ \E d \in {IF At(Trim(s), 1) \in {"-", "+"} THEN From(Trim(s), 2) ELSE Trim(s)} :
            d # "" /\ \A i \in 1..Len(d) : At(d, i) \in Digits

\* the text of a node resolved as a scalar: true and false are booleans, a
\* numeral is a number, anything else stays the string it is
ResolvedScalar(textValue) ==
    IF textValue = Str("true") THEN Bool(TRUE)
    ELSE IF textValue = Str("false") THEN Bool(FALSE)
    ELSE IF textValue.t = "str" /\ IsNumeral(textValue.s) THEN Num(ToNumber(textValue.s))
    ELSE textValue

RECURSIVE ToGeneric(_)
\* the generic value of a node of the parsed XML tree
ToGeneric(node) ==
    CASE node.t = "arr" -> Arr([i \in 1..Len(node.a) |-> ToGeneric(node.a[i])])
      [] node.t = "obj" /\ Keys(node) = <<"_text">> -> ResolvedScalar(Get(node, "_text"))
      [] node.t = "obj" /\ Keys(node) # <<"_text">> ->
            Obj([i \in 1..Len(SelectSeq(node.m, LAMBDA e : e.k \notin {"_text", "_attributes", "_cdata"})) |->
                    [k |-> SelectSeq(node.m, LAMBDA e : e.k \notin {"_text", "_attributes", "_cdata"})[i].k,
                     v |-> ToGeneric(SelectSeq(node.m, LAMBDA e : e.k \notin {"_text", "_attributes", "_cdata"})[i].v)]])
      [] OTHER -> node

\* the tree the XML reader gives for the text
XmlTreeOf(xmlString) == JsonParse(xml2json(Trim(xmlString), TRUE).json).v

\* the reader gives a tree for the text
XmlTreeRead(xmlString) ==
    /\ Includes(xmlString, "<") /\ Includes(xmlString, ">")
    /\ ~IsThrown(xml2json(Trim(xmlString), TRUE))

\* C23: the normalizer, at every depth of the parsed XML tree, replaces a
\* node that has only the text key by the text resolved as a scalar (true and
\* false booleans, a non-empty numeral a number, anything else the string),
\* drops the text of a node that has other keys and keeps its keys other than
\* the text, attribute and cdata keys, and normalizes arrays element by element
C23_NormalizerIsToGeneric ==
    (op = "xmlToJson" /\ XmlTreeRead(text)) =>
        /\ normalizeXmlJson(XmlTreeOf(text)) = ToGeneric(XmlTreeOf(text))
        /\ ret = XmlToJsonNormalized(ToGeneric(XmlTreeOf(text)))


\* the keys the XML reader writes the text, the attributes and the character
\* data of an element under
SentinelKeys == {"_text", "_attributes", "_cdata"}

RECURSIVE HasSentinelKey(_)
\* the value holds, at some depth, an object with one of these keys
HasSentinelKey(value) ==
    CASE value.t = "arr" -> \E i \in 1..Len(value.a) : HasSentinelKey(value.a[i])
      [] value.t = "obj" ->
            \E i \in 1..Len(value.m) :
                value.m[i].k \in SentinelKeys \/ HasSentinelKey(value.m[i].v)
      [] OTHER -> FALSE

\* C24: the JSON that xmlToJson returns on success has no object key named
\* _text, _attributes or _cdata at any depth
C24_NoSentinelKeyInResult ==
    (op = "xmlToJson" /\ ret.success) => ~HasSentinelKey(JsonParse(ret.result[1]).v)


RECURSIVE CountValues(_)
RECURSIVE SumCounts(_, _)
\* the number of values in a document: the value itself and the values in it
CountValues(value) == 1 + SumCounts(ChildValues(value), 1)

SumCounts(items, n) ==
    IF n > Len(items) THEN 0 ELSE CountValues(items[n]) + SumCounts(items, n + 1)

RECURSIVE NestingOf(_)
RECURSIVE DeepestOf(_, _)
\* the nesting level of the deepest value of a document, its root at level 0
NestingOf(value) ==
    IF ChildValues(value) = <<>> THEN 0 ELSE 1 + DeepestOf(ChildValues(value), 1)

DeepestOf(items, n) ==
    IF n > Len(items) THEN 0
    ELSE Max(NestingOf(items[n]), DeepestOf(items, n + 1))

\* what the statistics of a parsed text are to be
StatsAsCounted(returned, parsed) ==
    IF parsed.ok
    THEN /\ returned # NoStats
         /\ returned.nodeCount = CountValues(parsed.v)
         /\ returned.depth = NestingOf(parsed.v)
    ELSE returned = NoStats

\* C25: getJsonStats of text that parses returns the number of values of the
\* document as nodeCount, every scalar, array and object counted once and
\* keys not counted, and the deepest nesting level as depth, the root at
\* level 0; of text that does not parse it returns null
C25_StatsCountValues ==
    op = "getJsonStats" => StatsAsCounted(ret, JsonParse(text))

\* statistics were taken of a document that holds two values in a container
\* in its root
C25_Witness ==
    /\ op = "getJsonStats"
    /\ JsonParse(text).ok
    /\ ret.depth = 2
    /\ ret.nodeCount = 4


RECURSIVE ScalarSpans(_, _, _)
RECURSIVE ItemSpans(_, _, _, _)
RECURSIVE MemberSpans(_, _, _, _)
\* the scalars of a value printed compactly from offset at on: each with its
\* structural path and the offsets of its first and last character
ScalarSpans(value, path, at) ==
    CASE value.t = "arr" -> ItemSpans(value.a, 1, path, at + 1)
      [] value.t = "obj" -> MemberSpans(value.m, 1, path, at + 1)
      [] OTHER -> {[path |-> path, first |-> at,
                    last |-> at + Len(JsonStringify(value, 0)) - 1]}

\* the items from the n-th on, the n-th printed from offset at on
ItemSpans(items, n, path, at) ==
    IF n > Len(items) THEN {}
    ELSE ScalarSpans(items[n], path \o "[" \o NumToString(n - 1) \o "]", at)
            \cup ItemSpans(items, n + 1, path,
                           at + Len(JsonStringify(items[n], 0)) + 1)

\* the members from the n-th on, the key of the n-th printed from offset at on
MemberSpans(members, n, path, at) ==
    IF n > Len(members) THEN {}
    ELSE ScalarSpans(members[n].v, path \o "." \o members[n].k,
                     at + Len(Quote(members[n].k)) + 1)
            \cup MemberSpans(members, n + 1, path,
                             at + Len(Quote(members[n].k)) + 1
                                + Len(JsonStringify(members[n].v, 0)) + 1)

\* the path asked for at an offset of a compactly printed document is the
\* structural path of the scalar the offset lies in
PathIsStructural(jsonString, parsed, position, path) ==
    (parsed.ok /\ jsonString = JsonStringify(parsed.v, 0) /\ ~Includes(jsonString, BS)) =>
        /\ \A span \in ScalarSpans(parsed.v, "$", 0) :
                (span.first <= position /\ position <= span.last + 1 /\ position > 0)
                    => path = span.path
        /\ position >= Len(jsonString) => path = "$"

\* C26: for well-formed JSON without backslash escapes, the path that
\* getJsonPathAtPosition returns at an offset inside a scalar value is the
\* structural path of that value, with .key for a member of an object and [n]
\* for an item of an array; for an offset of 0 or less, and for an offset at
\* the end of a complete document, it is $
C26_PathOfScalar ==
    op = "getJsonPathAtPosition" =>
        /\ PathIsStructural(text, JsonParse(text), args[1], ret.value)
        /\ args[1] <= 0 => ret.value = "$"


\* C27 as it was stated: whenever smartExtract returns success, its result
\* parses as strict JSON
C27_ResultIsJson ==
    (op = "smartExtract" /\ ret.success) => JsonParse(ret.result[1]).ok

\* C27: whenever smartExtract returns success, its result parses as strict
\* JSON, but for the cURL and Base64 strategies, whose result is also the
\* extracted or decoded text itself when that text neither parses nor can be
\* repaired
C27_ResultIsJsonOrVerbatim ==
    (op = "smartExtract" /\ ret.success) =>
        \/ JsonParse(ret.result[1]).ok
        \/ /\ ret.detectedType \in {<<"cURL">>, <<"Base64">>}
           /\ ~tryFixJson(ret.result[1]).success

\* a Base64 text that decodes to text that is no JSON was extracted, and the
\* decoded text came back as it is
C27_Witness ==
    /\ op = "smartExtract"
    /\ ret.success
    /\ ret.detectedType = <<"Base64">>
    /\ ret.result = <<"hello, world!!!">>


\* the notation whose operation was called: the one a format operation is
\* for, and the source notation of a conversion to another notation
NotationCalled ==
    CASE op = "formatJson" -> "json"
      [] op = "formatXml" -> "xml"
      [] op = "formatYaml" -> "yaml"
      [] op = "convertFormat" /\ args[1] # args[2] -> args[1]
      [] OTHER -> NoFormat

\* C28: whenever detectFormat gives a notation for a text, the operations of
\* that notation accept the text: its format operation succeeds on it, and so
\* does its conversion to each other notation
C28_DetectedIsAccepted ==
    (/\ NotationCalled # NoFormat
     /\ DetectReadable(Trim(text))
     /\ detectFormat(text) = NotationCalled)
        => ret.success


\* C29: jsonToXml writes a document with exactly one top-level element, named
\* root: for every strict JSON text the value handed to the XML writer has
\* the single key root, the value under it is no array, and xmlToJson accepts
\* the XML that is written
C29_SingleRootElement ==
    /\ (op = "jsonToXml" /\ JsonParse(text).ok) =>
            /\ ret.success
            /\ Keys(XmlData(JsonParse(text).v)) = <<"root">>
            /\ Get(XmlData(JsonParse(text).v), "root").t # "arr"
    /\ (op = "xmlToJson" /\ via = <<"jsonToXml">> /\ JsonParse(orig).ok) => ret.success


\* C30: escapeString succeeds on every string, unescapeString of what it
\* returns succeeds and gives the string back, and unescapeString succeeds
\* on every string
C30_EscapeRoundTrip ==
    /\ op = "escapeString" => ret.success
    /\ op = "unescapeString" => ret.success
    /\ (op = "unescapeString" /\ via = <<"escapeString">>) => ret = Success(orig)

\* a string with a backslash and a quote was escaped to another text, and
\* the unescaped text is the string
C30_Witness ==
    /\ op = "unescapeString"
    /\ via = <<"escapeString">>
    /\ Includes(orig, BS) /\ Includes(orig, DQ)
    /\ text # orig
    /\ ret = Success(orig)

====
